---- MODULE Spec2Model ----
(***************************************************************************)
(* A model of tablefi: Cell (text or exact decimal), Slice (a sequence of  *)
(* cells) and Table (a row-major grid of cells).                           *)
(*                                                                         *)
(* A string is a sequence of one-character strings, so that the classifier *)
(* and the orderings work on characters.  A Decimal is a mantissa m and a  *)
(* scale s and stands for m / 10^s, as rust_decimal stores it; equality of *)
(* Decimals (and of Number cells) is numeric, as Decimal's PartialEq is.   *)
(***************************************************************************)
EXTENDS Integers, Sequences, FiniteSets, TLC

VARIABLES cell, slice, other_slice, table, fault, last

vars == <<cell, slice, other_slice, table, fault, last>>

(***************************************************************************)
(* Bounds of the model.                                                    *)
(***************************************************************************)
\* largest mantissa magnitude a cell may hold when an operation is applied
MaxMant == 12
\* largest scale a cell may hold when an operation is applied
MaxScale == 1
\* digits kept of a quotient that has no finite decimal expansion; stands
\* for the 28 fractional digits of rust_decimal
RoundDigits == 2
\* largest slice length
MaxLen == 3
\* largest mantissa magnitude a cell of a slice may hold when a scalar
\* mutator is applied to the slice
MaxSliceMant == 2
\* most rows and most columns of a table
MaxRows == 2
MaxCols == 2
\* most cells of a table
MaxCells == 4
\* most cells of a table that is written as text
MaxTextCells == 2

\* characters of a literal handed to the classifier
MaxLitLen == 5

(***************************************************************************)
(* Characters and strings.                                                 *)
(***************************************************************************)
Digit == {"0", "1", "2", "3", "4", "5", "6", "7", "8", "9"}

\* the code point of a character: String's ordering compares bytes
CharCode(c) ==
    CASE c = "#" -> 35
      [] c = "+" -> 43
      [] c = "," -> 44
      [] c = "-" -> 45
      [] c = "." -> 46
      [] c = "/" -> 47
      [] c = "0" -> 48
      [] c = "1" -> 49
      [] c = "2" -> 50
      [] c = "3" -> 51
      [] c = "4" -> 52
      [] c = "5" -> 53
      [] c = "6" -> 54
      [] c = "7" -> 55
      [] c = "8" -> 56
      [] c = "9" -> 57
      [] c = "D" -> 68
      [] c = "I" -> 73
      [] c = "V" -> 86
      [] c = "a" -> 97
      [] c = "b" -> 98

DigitVal(c) == CharCode(c) - 48

DIV0 == <<"#", "D", "I", "V", "/", "0">>

\* Ordering values of std::cmp::Ordering
Less == "Less"
Equal == "Equal"
Greater == "Greater"

\* String::partial_cmp: lexicographic on code points, a proper prefix is less
RECURSIVE StrCmp(_, _)
StrCmp(s1, s2) ==
    IF s1 = <<>> /\ s2 = <<>> THEN Equal
    ELSE IF s1 = <<>> THEN Less
    ELSE IF s2 = <<>> THEN Greater
    ELSE IF CharCode(Head(s1)) < CharCode(Head(s2)) THEN Less
    ELSE IF CharCode(Head(s1)) > CharCode(Head(s2)) THEN Greater
    ELSE StrCmp(Tail(s1), Tail(s2))

(***************************************************************************)
(* Decimal: the value m / 10^s.                                            *)
(***************************************************************************)
Dec(m, s) == [m |-> m, s |-> s]

RECURSIVE Pow10(_)
Pow10(k) == IF k = 0 THEN 1 ELSE 10 * Pow10(k - 1)

Abs(x) == IF x < 0 THEN -x ELSE x

Sign(x) == IF x < 0 THEN -1 ELSE 1

Max(a, b) == IF a >= b THEN a ELSE b

RECURSIVE Gcd(_, _)
Gcd(a, b) == IF b = 0 THEN a ELSE Gcd(b, a % b)

\* n with every factor p divided out (n > 0, p > 1)
RECURSIVE StripFactor(_, _)
StripFactor(n, p) == IF n % p = 0 THEN StripFactor(n \div p, p) ELSE n

\* the mantissa of d at scale s >= d.s
Rescale(d, s) == d.m * Pow10(s - d.s)

is_zero(d) == d.m = 0

\* Decimal's PartialEq / PartialOrd: numeric
DecCmp(a, b) ==
    LET s == Max(a.s, b.s)
        x == Rescale(a, s)
        y == Rescale(b, s)
    IN  IF x < y THEN Less ELSE IF x > y THEN Greater ELSE Equal

DecEq(a, b) == DecCmp(a, b) = Equal

DecAdd(a, b) ==
    LET s == Max(a.s, b.s) IN Dec(Rescale(a, s) + Rescale(b, s), s)

DecSub(a, b) ==
    LET s == Max(a.s, b.s) IN Dec(Rescale(a, s) - Rescale(b, s), s)

DecMul(a, b) == Dec(a.m * b.m, a.s + b.s)

\* whether n / d (d > 0) has a finite decimal expansion
Terminates(n, d) ==
    LET r == d \div Gcd(Abs(n), d)
    IN  StripFactor(StripFactor(r, 2), 5) = 1

\* the least k with n * 10^k divisible by d, for a quotient that terminates
RECURSIVE ExactScale(_, _, _)
ExactScale(n, d, k) ==
    IF (n * Pow10(k)) % d = 0 THEN k ELSE ExactScale(n, d, k + 1)

\* a / b for b # 0: exact when the quotient has a finite decimal expansion,
\* otherwise rounded to the nearest value with RoundDigits fractional digits
DecDiv(a, b) ==
    LET sgn == Sign(a.m) * Sign(b.m)
        n   == Abs(a.m) * Pow10(b.s)
        d   == Abs(b.m) * Pow10(a.s)
    IN  IF Terminates(n, d)
        THEN LET k == ExactScale(n, d, 0)
             IN  Dec(sgn * ((n * Pow10(k)) \div d), k)
        ELSE Dec(sgn * ((2 * n * Pow10(RoundDigits) + d) \div (2 * d)),
                 RoundDigits)

(***************************************************************************)
(* The classifier: a literal becomes a Number cell or a Text cell.         *)
(***************************************************************************)
Text(s) == [tag |-> "Text", s |-> s]

Number(d) == [tag |-> "Number", d |-> d]

\* \d+
IsDigits(s) == s # <<>> /\ \A i \in 1..Len(s) : s[i] \in Digit

\* (?:,\d{3})*
RECURSIVE GroupTail(_)
GroupTail(s) ==
    \/ s = <<>>
    \/ /\ Len(s) >= 4
       /\ s[1] = ","
       /\ IsDigits(SubSeq(s, 2, 4))
       /\ GroupTail(SubSeq(s, 5, Len(s)))

\* \d{1,3}(?:,\d{3})*|\d+
IntPart(s) ==
    \/ \E k \in 1..3 : /\ k <= Len(s)
                       /\ IsDigits(SubSeq(s, 1, k))
                       /\ GroupTail(SubSeq(s, k + 1, Len(s)))
    \/ IsDigits(s)

\* the index of the first "." of s, 0 when there is none
FirstPoint(s) ==
    IF \E i \in 1..Len(s) : s[i] = "."
    THEN CHOOSE i \in 1..Len(s) : s[i] = "." /\ \A j \in 1..(i - 1) : s[j] # "."
    ELSE 0

\* RE_NUMERIC_PATTERN
\*   ^[+-]?(?:(?:(?:\d{1,3}(?:,\d{3})*|\d+)(?:\.\d+)?)|(?:\.\d+))$
is_match(s) ==
    LET body == IF s # <<>> /\ s[1] \in {"+", "-"} THEN Tail(s) ELSE s
        p    == FirstPoint(body)
    IN  IF p = 0 THEN IntPart(body)
        ELSE IF p = 1 THEN IsDigits(Tail(body))
        ELSE /\ IntPart(SubSeq(body, 1, p - 1))
             /\ IsDigits(SubSeq(body, p + 1, Len(body)))

\* RE_STRIP_CHARS.replace_all(s, ""): drops every character outside [0-9+.-]
StripKeep(c) == c \in Digit \cup {"+", ".", "-"}

\* a variant of the replacement that strips nothing
strip_chars_Nothing(s) == s

strip_chars(s) == SelectSeq(s, StripKeep)

RECURSIVE DigitsValue(_, _)
DigitsValue(s, acc) ==
    IF s = <<>> THEN acc ELSE DigitsValue(Tail(s), 10 * acc + DigitVal(Head(s)))

\* Decimal::from_str: optional sign, digits, optional point and digits; the
\* scale is the number of digits after the point
from_str(s) ==
    LET neg  == s # <<>> /\ s[1] = "-"
        body == IF s # <<>> /\ s[1] \in {"+", "-"} THEN Tail(s) ELSE s
        p    == FirstPoint(body)
        ip   == IF p = 0 THEN body ELSE SubSeq(body, 1, p - 1)
        fp   == IF p = 0 THEN <<>> ELSE SubSeq(body, p + 1, Len(body))
        ds   == ip \o fp
    IN  IF IsDigits(ds)
        THEN [ok |-> TRUE,
              d  |-> Dec((IF neg THEN -1 ELSE 1) * DigitsValue(ds, 0), Len(fp))]
        ELSE [ok |-> FALSE, d |-> Dec(0, 0)]

\* a variant of the classifier whose Text holds the stripped literal
cell_from_string_TextStripped(s_ref) ==
    IF is_match(s_ref) /\ from_str(strip_chars(s_ref)).ok
    THEN Number(from_str(strip_chars(s_ref)).d)
    ELSE Text(strip_chars(s_ref))

\* fn cell_from_string
cell_from_string(s_ref) ==
    IF is_match(s_ref) /\ from_str(strip_chars(s_ref)).ok
    THEN Number(from_str(strip_chars(s_ref)).d)
    ELSE Text(s_ref)

(***************************************************************************)
(* Cell.                                                                   *)
(***************************************************************************)
is_text(c) == c.tag = "Text"

is_number(c) == ~is_text(c)

\* Cell::to_decimal: Some(d) for a Number, None for a Text
to_decimal(c) ==
    IF c.tag = "Number" THEN [some |-> TRUE, d |-> c.d]
    ELSE [some |-> FALSE, d |-> Dec(0, 0)]

\* derive(PartialEq) for Cell: same variant, equal content
CellEq(c1, c2) ==
    /\ c1.tag = c2.tag
    /\ IF c1.tag = "Text" THEN c1.s = c2.s ELSE DecEq(c1.d, c2.d)

\* a variant of the + operator that passes the right operand through
Cell_add_RightOperand(self, other) ==
    IF is_number(self) /\ is_number(other)
    THEN Number(DecAdd(to_decimal(self).d, to_decimal(other).d))
    ELSE other

\* impl Add<&Cell> for &Cell
Cell_add(self, other) ==
    IF is_number(self) /\ is_number(other)
    THEN Number(DecAdd(to_decimal(self).d, to_decimal(other).d))
    ELSE self

\* a variant of the - operator that subtracts the left operand from the
\* right one
Cell_sub_Reversed(self, other) ==
    IF is_number(self) /\ is_number(other)
    THEN Number(DecSub(to_decimal(other).d, to_decimal(self).d))
    ELSE self

\* impl Sub<&Cell> for &Cell
Cell_sub(self, other) ==
    IF is_number(self) /\ is_number(other)
    THEN Number(DecSub(to_decimal(self).d, to_decimal(other).d))
    ELSE self

\* impl Mul<&Cell> for &Cell
Cell_mul(self, other) ==
    IF is_number(self) /\ is_number(other)
    THEN Number(DecMul(to_decimal(self).d, to_decimal(other).d))
    ELSE self

\* a variant of the / operator that passes a zero divisor through
Cell_div_NoSentinel(self, other) ==
    IF is_number(self) /\ is_number(other) /\ ~is_zero(to_decimal(other).d)
    THEN Number(DecDiv(to_decimal(self).d, to_decimal(other).d))
    ELSE self

\* impl Div<&Cell> for &Cell
Cell_div(self, other) ==
    IF is_number(self) /\ is_number(other)
    THEN IF is_zero(to_decimal(other).d)
         THEN cell_from_string(DIV0)
         ELSE Number(DecDiv(to_decimal(self).d, to_decimal(other).d))
    ELSE self

replace_value(self, new_value) == new_value

Cell_add_value(self, value) ==
    IF self.tag = "Number" THEN Number(DecAdd(self.d, value)) ELSE self

Cell_sub_value(self, value) ==
    IF self.tag = "Number" THEN Number(DecSub(self.d, value)) ELSE self

\* a variant of mul_value that takes a Text cell for zero
Cell_mul_value_TextAsZero(self, value) ==
    Number(DecMul(to_decimal(self).d, value))

Cell_mul_value(self, value) ==
    IF self.tag = "Number" THEN Number(DecMul(self.d, value)) ELSE self

\* a variant of div_value that tests the divisor before the variant
Cell_div_value_ZeroFirst(self, value) ==
    IF is_zero(value) THEN cell_from_string(DIV0)
    ELSE IF self.tag = "Number" THEN Number(DecDiv(self.d, value))
    ELSE self

Cell_div_value(self, value) ==
    IF self.tag = "Number"
    THEN IF is_zero(value)
         THEN cell_from_string(DIV0)
         ELSE Number(DecDiv(self.d, value))
    ELSE self

\* the digits of n >= 0
RECURSIVE NatStr(_)
NatStr(n) ==
    LET c == CHOOSE x \in Digit : DigitVal(x) = n % 10
    IN  IF n < 10 THEN <<c>> ELSE NatStr(n \div 10) \o <<c>>

\* s padded with zeros on the left to at least n characters
RECURSIVE PadLeft(_, _)
PadLeft(s, n) == IF Len(s) >= n THEN s ELSE PadLeft(<<"0">> \o s, n)

\* Decimal's Display: sign, integer digits and, for a scale s > 0, a point
\* and exactly s fractional digits
DecStr(d) ==
    LET ds == PadLeft(NatStr(Abs(d.m)), d.s + 1)
        n  == Len(ds)
        ip == SubSeq(ds, 1, n - d.s)
        fp == SubSeq(ds, n - d.s + 1, n)
    IN  (IF d.m < 0 THEN <<"-">> ELSE <<>>)
        \o ip \o (IF d.s > 0 THEN <<".">> \o fp ELSE <<>>)

\* impl ToString for Cell
Cell_to_string(c) == IF c.tag = "Text" THEN c.s ELSE DecStr(c.d)

is_divide_by_zero(c) == Cell_to_string(c) = DIV0

\* what compare_value returns: Some(ordering) or None
SomeOrd(o) == [some |-> TRUE, ord |-> o]

NoneOrd == [some |-> FALSE, ord |-> Equal]

\* a variant of compare_value that compares mixed variants as strings
compare_value_ByString(self, other_cell) ==
    IF self.tag = "Number" /\ other_cell.tag = "Number"
    THEN SomeOrd(DecCmp(self.d, other_cell.d))
    ELSE SomeOrd(StrCmp(Cell_to_string(self), Cell_to_string(other_cell)))

\* Cell::compare_value, other_cell being other_value.into()
compare_value(self, other_cell) ==
    IF self.tag = "Number" /\ other_cell.tag = "Number"
    THEN SomeOrd(DecCmp(self.d, other_cell.d))
    ELSE IF self.tag = "Text" /\ other_cell.tag = "Text"
    THEN SomeOrd(StrCmp(self.s, other_cell.s))
    ELSE NoneOrd

equal_value(self, other_cell) ==
    compare_value(self, other_cell) = SomeOrd(Equal)

(***************************************************************************)
(* Inputs of the model.                                                    *)
(***************************************************************************)
\* decimals handed to the operations: 0, 1, 2, 3, -1, 0.5 and 1.0
DecArgs ==
    {Dec(0, 0), Dec(1, 0), Dec(2, 0), Dec(3, 0), Dec(-1, 0), Dec(5, 1),
     Dec(10, 1)}

\* literals handed to the operations
StrArgs ==
    {<<>>, <<"a">>, <<"b">>, <<"a", "b">>, <<"1">>, <<"1", ".", "0">>,
     <<"+", "2">>, <<"1", "a">>, DIV0}

\* cells handed to the operations as operands
CellArgs ==
    {Number(d) : d \in DecArgs}
      \cup {Text(<<"a">>), Text(<<"b">>), Text(<<"1">>), Text(DIV0)}

\* cells a cell is constructed with or replaced by; the sentinel is not
\* among them, so that a sentinel cell comes from a division by zero
CellInputs ==
    {Number(d) : d \in DecArgs} \cup {Text(<<"a">>), Text(<<"b">>), Text(<<"1">>)}

\* the right-hand operand of compare_value / equal_value: a string, a
\* Decimal or a Cell, each with its Into<Cell>
ValueArgs ==
    {[kind |-> "str", str |-> s] : s \in StrArgs}
      \cup {[kind |-> "dec", dec |-> d] : d \in DecArgs}
      \cup {[kind |-> "cell", cell |-> c] : c \in CellArgs}

\* impl From<&str> / From<&Decimal> / From<&Cell> for Cell
into_cell(v) ==
    IF v.kind = "str" THEN cell_from_string(v.str)
    ELSE IF v.kind = "dec" THEN Number(v.dec)
    ELSE v.cell

\* a cell small enough for the model to operate on
InBounds(c) ==
    c.tag = "Number" => (Abs(c.d.m) <= MaxMant /\ c.d.s <= MaxScale)

EmptyGrid == [rows |-> 0, cols |-> 0, data |-> <<>>]

(***************************************************************************)
(* Operations on one cell.                                                 *)
(***************************************************************************)
InitCell ==
    /\ cell \in CellInputs
    /\ slice = <<>>
    /\ other_slice = <<>>
    /\ table = EmptyGrid
    /\ fault = FALSE
    /\ last = [op |-> "init"]

\* &cell + &other
CellAdd(other) ==
    /\ InBounds(cell)
    /\ last' = [op |-> "add", self |-> cell, other |-> other,
                out |-> Cell_add(cell, other)]
    /\ UNCHANGED <<cell, slice, other_slice, table, fault>>

\* &cell - &other
CellSub(other) ==
    /\ InBounds(cell)
    /\ last' = [op |-> "sub", self |-> cell, other |-> other,
                out |-> Cell_sub(cell, other)]
    /\ UNCHANGED <<cell, slice, other_slice, table, fault>>

\* &cell * &other
CellMul(other) ==
    /\ InBounds(cell)
    /\ last' = [op |-> "mul", self |-> cell, other |-> other,
                out |-> Cell_mul(cell, other)]
    /\ UNCHANGED <<cell, slice, other_slice, table, fault>>

\* &cell / &other
CellDiv(other) ==
    /\ InBounds(cell)
    /\ last' = [op |-> "div", self |-> cell, other |-> other,
                out |-> Cell_div(cell, other)]
    /\ UNCHANGED <<cell, slice, other_slice, table, fault>>

\* cell.add_value(value)
CellAddValue(value) ==
    /\ InBounds(cell)
    /\ cell' = Cell_add_value(cell, value)
    /\ last' = [op |-> "add_value", self |-> cell, value |-> value]
    /\ UNCHANGED <<slice, other_slice, table, fault>>

\* cell.sub_value(value)
CellSubValue(value) ==
    /\ InBounds(cell)
    /\ cell' = Cell_sub_value(cell, value)
    /\ last' = [op |-> "sub_value", self |-> cell, value |-> value]
    /\ UNCHANGED <<slice, other_slice, table, fault>>

\* cell.mul_value(value)
CellMulValue(value) ==
    /\ InBounds(cell)
    /\ cell' = Cell_mul_value(cell, value)
    /\ last' = [op |-> "mul_value", self |-> cell, value |-> value]
    /\ UNCHANGED <<slice, other_slice, table, fault>>

\* cell.div_value(value)
CellDivValue(value) ==
    /\ InBounds(cell)
    /\ cell' = Cell_div_value(cell, value)
    /\ last' = [op |-> "div_value", self |-> cell, value |-> value]
    /\ UNCHANGED <<slice, other_slice, table, fault>>

\* cell.replace_value(&new_value)
CellReplaceValue(new_value) ==
    /\ cell' = replace_value(cell, new_value)
    /\ last' = [op |-> "replace_value", self |-> cell, value |-> new_value]
    /\ UNCHANGED <<slice, other_slice, table, fault>>

\* cell.compare_value(&other_value)
CellCompareValue(other_value) ==
    /\ last' = [op |-> "compare_value", self |-> cell, value |-> other_value,
                out |-> compare_value(cell, into_cell(other_value))]
    /\ UNCHANGED <<cell, slice, other_slice, table, fault>>

\* cell.equal_value(&other_value)
CellEqualValue(other_value) ==
    /\ last' = [op |-> "equal_value", self |-> cell, value |-> other_value,
                out |-> equal_value(cell, into_cell(other_value))]
    /\ UNCHANGED <<cell, slice, other_slice, table, fault>>

NextCell ==
    \/ \E other \in CellArgs : CellAdd(other)
    \/ \E other \in CellArgs : CellSub(other)
    \/ \E other \in CellArgs : CellMul(other)
    \/ \E other \in CellArgs : CellDiv(other)
    \/ \E value \in DecArgs : CellAddValue(value)
    \/ \E value \in DecArgs : CellSubValue(value)
    \/ \E value \in DecArgs : CellMulValue(value)
    \/ \E value \in DecArgs : CellDivValue(value)
    \/ \E new_value \in CellInputs : CellReplaceValue(new_value)
    \/ \E other_value \in ValueArgs : CellCompareValue(other_value)
    \/ \E other_value \in ValueArgs : CellEqualValue(other_value)

SpecCell == InitCell /\ [][NextCell]_vars

(***************************************************************************)
(* Slice: a sequence of cells, indexed from 1 here and from 0 in the code. *)
(***************************************************************************)
\* Option<Decimal>::unwrap_or
unwrap_or(opt, default) == IF opt.some THEN opt.d ELSE default

Min(a, b) == IF a <= b THEN a ELSE b

\* a variant of + that stops at the shorter operand
Slice_add_Zip(self, other) ==
    [i \in 1..Min(Len(self), Len(other)) |->
        Cell_add_value(self[i], unwrap_or(to_decimal(other[i]), Dec(0, 0)))]

\* impl Add<&Slice> for &Slice
Slice_add(self, other) ==
    [i \in 1..Len(self) |->
        IF i <= Len(other)
        THEN Cell_add_value(self[i], unwrap_or(to_decimal(other[i]), Dec(0, 0)))
        ELSE self[i]]

\* impl Sub<&Slice> for &Slice
Slice_sub(self, other) ==
    [i \in 1..Len(self) |->
        IF i <= Len(other)
        THEN Cell_sub_value(self[i], unwrap_or(to_decimal(other[i]), Dec(0, 0)))
        ELSE self[i]]

\* impl Mul<&Slice> for &Slice
Slice_mul(self, other) ==
    [i \in 1..Len(self) |->
        IF i <= Len(other)
        THEN Cell_mul_value(self[i], unwrap_or(to_decimal(other[i]), Dec(1, 0)))
        ELSE self[i]]

\* a variant of / whose default for a Text divisor is that of + and -
Slice_div_DefaultZero(self, other) ==
    [i \in 1..Len(self) |->
        IF i <= Len(other)
        THEN Cell_div_value(self[i], unwrap_or(to_decimal(other[i]), Dec(0, 0)))
        ELSE self[i]]

\* impl Div<&Slice> for &Slice
Slice_div(self, other) ==
    [i \in 1..Len(self) |->
        IF i <= Len(other)
        THEN Cell_div_value(self[i], unwrap_or(to_decimal(other[i]), Dec(1, 0)))
        ELSE self[i]]

Slice_len(self) == Len(self)

\* Slice::cell: indexing panics when idx is out of range
Slice_cell(self, idx) ==
    IF idx < Len(self) THEN [panic |-> FALSE, cell |-> self[idx + 1]]
    ELSE [panic |-> TRUE, cell |-> Text(<<>>)]

\* Slice::mut_cell: whether Vec::get_mut finds a cell at idx
Slice_mut_cell(self, idx) == idx < Len(self)

Slice_add_value(self, value) ==
    [i \in 1..Len(self) |-> Cell_add_value(self[i], value)]

Slice_sub_value(self, value) ==
    [i \in 1..Len(self) |-> Cell_sub_value(self[i], value)]

\* a variant of mul_value that stops at the first Text cell
Slice_mul_value_StopAtText(self, value) ==
    [i \in 1..Len(self) |->
        IF \E j \in 1..i : self[j].tag = "Text" THEN self[i]
        ELSE Cell_mul_value(self[i], value)]

Slice_mul_value(self, value) ==
    [i \in 1..Len(self) |-> Cell_mul_value(self[i], value)]

\* a variant of div_value that turns every cell into the sentinel for a
\* zero divisor
Slice_div_value_AllCells(self, value) ==
    [i \in 1..Len(self) |->
        IF is_zero(value) THEN cell_from_string(DIV0)
        ELSE Cell_div_value(self[i], value)]

Slice_div_value(self, value) ==
    [i \in 1..Len(self) |-> Cell_div_value(self[i], value)]

\* sequences of at most n elements of S
SeqUpTo(S, n) == UNION {[1..k -> S] : k \in 0..n}

\* cells of the slices the operators are applied to
SliceCells == {Number(Dec(0, 0)), Number(Dec(2, 0)), Text(<<"a">>)}

SliceArgs == SeqUpTo(SliceCells, MaxLen)

\* cells of the slices the scalar mutators start from
SliceInputCells == {Number(Dec(1, 0)), Number(Dec(2, 0)), Text(<<"a">>)}

SliceInputs == SeqUpTo(SliceInputCells, MaxLen)

\* scalars handed to the scalar mutators
ScalarArgs == {Dec(0, 0), Dec(2, 0)}

\* a slice small enough for the model to apply a scalar mutator
SliceInBounds(s) ==
    \A i \in 1..Len(s) :
        s[i].tag = "Number" => (Abs(s[i].d.m) <= MaxSliceMant /\ s[i].d.s = 0)

(***************************************************************************)
(* The binary operators of Slice, applied to two slices drawn at the start. *)
(***************************************************************************)
InitSliceOps ==
    /\ cell = Text(<<>>)
    /\ slice \in SliceArgs
    /\ other_slice \in SliceArgs
    /\ table = EmptyGrid
    /\ fault = FALSE
    /\ last = [op |-> "init"]

\* &slice + &other_slice
SliceAdd ==
    /\ last' = [op |-> "slice_add", self |-> slice, other |-> other_slice,
                out |-> Slice_add(slice, other_slice)]
    /\ UNCHANGED <<cell, slice, other_slice, table, fault>>

\* &slice - &other_slice
SliceSub ==
    /\ last' = [op |-> "slice_sub", self |-> slice, other |-> other_slice,
                out |-> Slice_sub(slice, other_slice)]
    /\ UNCHANGED <<cell, slice, other_slice, table, fault>>

\* &slice * &other_slice
SliceMul ==
    /\ last' = [op |-> "slice_mul", self |-> slice, other |-> other_slice,
                out |-> Slice_mul(slice, other_slice)]
    /\ UNCHANGED <<cell, slice, other_slice, table, fault>>

\* &slice / &other_slice
SliceDiv ==
    /\ last' = [op |-> "slice_div", self |-> slice, other |-> other_slice,
                out |-> Slice_div(slice, other_slice)]
    /\ UNCHANGED <<cell, slice, other_slice, table, fault>>

NextSliceOps ==
    \/ SliceAdd
    \/ SliceSub
    \/ SliceMul
    \/ SliceDiv

SpecSliceOps == InitSliceOps /\ [][NextSliceOps]_vars

(***************************************************************************)
(* The methods of Slice, applied to one slice.  A panic ends the run.      *)
(***************************************************************************)
InitSlice ==
    /\ cell = Text(<<>>)
    /\ slice \in SliceInputs
    /\ other_slice = <<>>
    /\ table = EmptyGrid
    /\ fault = FALSE
    /\ last = [op |-> "init"]

\* slice.add_value(value)
SliceAddValue(value) ==
    /\ ~fault
    /\ SliceInBounds(slice)
    /\ slice' = Slice_add_value(slice, value)
    /\ last' = [op |-> "slice_add_value", self |-> slice, value |-> value]
    /\ UNCHANGED <<cell, other_slice, table, fault>>

\* slice.sub_value(value)
SliceSubValue(value) ==
    /\ ~fault
    /\ SliceInBounds(slice)
    /\ slice' = Slice_sub_value(slice, value)
    /\ last' = [op |-> "slice_sub_value", self |-> slice, value |-> value]
    /\ UNCHANGED <<cell, other_slice, table, fault>>

\* slice.mul_value(value)
SliceMulValue(value) ==
    /\ ~fault
    /\ SliceInBounds(slice)
    /\ slice' = Slice_mul_value(slice, value)
    /\ last' = [op |-> "slice_mul_value", self |-> slice, value |-> value]
    /\ UNCHANGED <<cell, other_slice, table, fault>>

\* slice.div_value(value)
SliceDivValue(value) ==
    /\ ~fault
    /\ SliceInBounds(slice)
    /\ slice' = Slice_div_value(slice, value)
    /\ last' = [op |-> "slice_div_value", self |-> slice, value |-> value]
    /\ UNCHANGED <<cell, other_slice, table, fault>>

\* slice.cell(idx)
SliceCell(idx) ==
    /\ ~fault
    /\ fault' = Slice_cell(slice, idx).panic
    /\ last' = [op |-> "slice_cell", self |-> slice, idx |-> idx,
                out |-> Slice_cell(slice, idx).cell]
    /\ UNCHANGED <<cell, slice, other_slice, table>>

\* slice.mut_cell(idx) on a Slice that is a view of the first cells of the
\* grid instead of a copy: the write reaches the table
SliceMutCell_View(idx, new_value) ==
    /\ ~fault
    /\ slice' = IF Slice_mut_cell(slice, idx)
                THEN [slice EXCEPT ![idx + 1] = replace_value(@, new_value)]
                ELSE slice
    /\ table' = IF idx < Len(table.data)
                THEN [table EXCEPT !.data[idx + 1] =
                                       replace_value(@, new_value)]
                ELSE table
    /\ last' = [op |-> "slice_mut_cell", self |-> slice, idx |-> idx,
                value |-> new_value, out |-> Slice_mut_cell(slice, idx)]
    /\ UNCHANGED <<cell, other_slice, fault>>

\* slice.mut_cell(idx), and replace_value on the cell it finds
SliceMutCell(idx, new_value) ==
    /\ ~fault
    /\ slice' = IF Slice_mut_cell(slice, idx)
                THEN [slice EXCEPT ![idx + 1] = replace_value(@, new_value)]
                ELSE slice
    /\ last' = [op |-> "slice_mut_cell", self |-> slice, idx |-> idx,
                value |-> new_value, out |-> Slice_mut_cell(slice, idx)]
    /\ UNCHANGED <<cell, other_slice, table, fault>>

NextSlice ==
    \/ \E value \in ScalarArgs : SliceAddValue(value)
    \/ \E value \in ScalarArgs : SliceSubValue(value)
    \/ \E value \in ScalarArgs : SliceMulValue(value)
    \/ \E value \in ScalarArgs : SliceDivValue(value)
    \/ \E idx \in 0..MaxLen : SliceCell(idx)
    \/ \E idx \in 0..MaxLen, new_value \in SliceInputCells :
           SliceMutCell(idx, new_value)

SpecSlice == InitSlice /\ [][NextSlice]_vars

(***************************************************************************)
(* Table: a Grid<Cell> in row-major order.  The grid is its row count, its *)
(* column count and the flat vector of its cells; the cell at (row, col)   *)
(* is data[row * cols + col + 1].                                          *)
(***************************************************************************)
Grid(rows, cols, data) == [rows |-> rows, cols |-> cols, data |-> data]

Done(g, out) == [panic |-> FALSE, grid |-> g, out |-> out]

Panic(g) == [panic |-> TRUE, grid |-> g, out |-> [some |-> FALSE]]

NoneSlice == [some |-> FALSE, val |-> <<>>]

SomeSlice(s) == [some |-> TRUE, val |-> s]

NoneCell == [some |-> FALSE, val |-> Text(<<>>)]

SomeCell(c) == [some |-> TRUE, val |-> c]

\* Grid::get / Grid::get_mut
Grid_get(g, row, col) ==
    IF row < g.rows /\ col < g.cols
    THEN SomeCell(g.data[row * g.cols + col + 1])
    ELSE NoneCell

\* Grid::iter_row(row): panics unless row < rows
Grid_iter_row(g, row) ==
    IF row < g.rows
    THEN [panic |-> FALSE,
          val |-> SubSeq(g.data, row * g.cols + 1, (row + 1) * g.cols)]
    ELSE [panic |-> TRUE, val |-> <<>>]

\* Grid::iter_col(col): panics unless col < cols
Grid_iter_col(g, col) ==
    IF col < g.cols
    THEN [panic |-> FALSE,
          val |-> [i \in 1..g.rows |-> g.data[(i - 1) * g.cols + col + 1]]]
    ELSE [panic |-> TRUE, val |-> <<>>]

\* Grid::push_row: asserts a non-empty row of the grid's width
Grid_push_row(g, row) ==
    IF Len(row) = 0 \/ (g.rows > 0 /\ Len(row) # g.cols) THEN Panic(g)
    ELSE Done(Grid(g.rows + 1, Len(row), g.data \o row), NoneSlice)

\* Grid::insert_row without the assertion on the width of the row
Grid_insert_row_NoWidthCheck(g, index, row) ==
    LET n == Len(row)
        at == Min(index * n, Len(g.data))
    IN  IF index > g.rows THEN Panic(g)
        ELSE Done(Grid(g.rows + 1, n,
                       SubSeq(g.data, 1, at) \o row
                         \o SubSeq(g.data, at + 1, Len(g.data))),
                  NoneSlice)

\* Grid::insert_row of a non-empty row: asserts the grid's width (when it
\* has one) and index <= rows, then splices the row in at index * len
Grid_insert_row(g, index, row) ==
    LET n == Len(row)
    IN  IF (g.cols > 0 /\ n # g.cols) \/ index > g.rows THEN Panic(g)
        ELSE Done(Grid(g.rows + 1, n,
                       SubSeq(g.data, 1, index * n) \o row
                         \o SubSeq(g.data, index * n + 1, Len(g.data))),
                  NoneSlice)

\* Grid::insert_col of a non-empty column: asserts the grid's height (when
\* it has one) and index <= cols, then inserts the cells row after row
Grid_insert_col(g, index, col) ==
    LET n == Len(col)
        w == g.cols + 1
    IN  IF (g.rows > 0 /\ n # g.rows) \/ index > g.cols THEN Panic(g)
        ELSE Done(Grid(n, w,
                       [k \in 1..(n * w) |->
                           LET r == (k - 1) \div w
                               c == (k - 1) % w
                           IN  IF c < index THEN g.data[r * g.cols + c + 1]
                               ELSE IF c = index THEN col[r + 1]
                               ELSE g.data[r * g.cols + c]]),
                  NoneSlice)

\* Grid::remove_row: None when out of range, else drains the row; a grid
\* left without rows has no columns either
Grid_remove_row(g, row_index) ==
    IF g.cols = 0 \/ g.rows = 0 \/ row_index >= g.rows THEN Done(g, NoneSlice)
    ELSE Done(Grid(g.rows - 1,
                   IF g.rows = 1 THEN 0 ELSE g.cols,
                   SubSeq(g.data, 1, row_index * g.cols)
                     \o SubSeq(g.data, (row_index + 1) * g.cols + 1, Len(g.data))),
              SomeSlice(Grid_iter_row(g, row_index).val))

\* Grid::remove_col: None when out of range, else removes the column's cell
\* of every row; a grid left without columns has no rows either
Grid_remove_col(g, col_index) ==
    LET w == g.cols - 1
    IN  IF g.cols = 0 \/ g.rows = 0 \/ col_index >= g.cols
        THEN Done(g, NoneSlice)
        ELSE Done(Grid(IF g.cols = 1 THEN 0 ELSE g.rows, w,
                       [k \in 1..(g.rows * w) |->
                           LET r == (k - 1) \div w
                               c == (k - 1) % w
                           IN  IF c < col_index THEN g.data[r * g.cols + c + 1]
                               ELSE g.data[r * g.cols + c + 2]]),
                  SomeSlice(Grid_iter_col(g, col_index).val))

\* Table::new
Table_new == Grid(0, 0, <<>>)

\* impl Deserialize for Table: every literal is classified and the rows are
\* pushed one after the other
RECURSIVE push_rows(_, _)
push_rows(g, rows_of_cells) ==
    IF rows_of_cells = <<>> THEN Done(g, NoneSlice)
    ELSE LET r == Grid_push_row(g, Head(rows_of_cells))
         IN  IF r.panic THEN r ELSE push_rows(r.grid, Tail(rows_of_cells))

Table_deserialize(doc) ==
    push_rows(Table_new,
              [i \in 1..Len(doc) |->
                  [j \in 1..Len(doc[i]) |-> cell_from_string(doc[i][j])]])

Table_rows(t) == t.rows

Table_cols(t) == t.cols

\* Table::cell
Table_cell(t, row, col) == Grid_get(t, row, col)

\* Table::mut_cell
Table_mut_cell(t, row, col) == Grid_get(t, row, col)

\* Table::col
Table_col(t, col) ==
    IF col >= t.cols THEN Done(t, NoneSlice)
    ELSE LET it == Grid_iter_col(t, col)
         IN  IF it.panic THEN Panic(t) ELSE Done(t, SomeSlice(it.val))

\* Table::row with the guard row > rows in place of row >= rows
Table_row_Inclusive(t, row) ==
    IF row > t.rows THEN Done(t, NoneSlice)
    ELSE LET it == Grid_iter_row(t, row)
         IN  IF it.panic THEN Panic(t) ELSE Done(t, SomeSlice(it.val))

\* Table::row
Table_row(t, row) ==
    IF row >= t.rows THEN Done(t, NoneSlice)
    ELSE LET it == Grid_iter_row(t, row)
         IN  IF it.panic THEN Panic(t) ELSE Done(t, SomeSlice(it.val))

\* a variant of Table::insert_col that inserts in front of the first column
Table_insert_col_Front(t, idx, new_col) == Grid_insert_col(t, 0, new_col)

Table_insert_col(t, idx, new_col) == Grid_insert_col(t, idx, new_col)

Table_push_col(t, new_col) == Grid_insert_col(t, Table_cols(t), new_col)

Table_remove_col(t, idx) == Grid_remove_col(t, idx)

\* Table::replace_col: remove_col, then insert_col, returning what
\* remove_col returned
Table_replace_col(t, idx, new_col) ==
    LET old_col == Table_remove_col(t, idx)
        ins     == Table_insert_col(old_col.grid, idx, new_col)
    IN  IF ins.panic THEN ins ELSE Done(ins.grid, old_col.out)

\* Table::insert_row that cuts or pads the row to the width of the table
Table_insert_row_Fitted(t, idx, new_row) ==
    Grid_insert_row(t, idx,
                    IF Table_cols(t) = 0 THEN new_row
                    ELSE [i \in 1..Table_cols(t) |->
                             IF i <= Len(new_row) THEN new_row[i]
                             ELSE Text(<<>>)])

\* Table::insert_row that appends the row whatever the index
Table_insert_row_AtEnd(t, idx, new_row) ==
    Grid_insert_row(t, Table_rows(t), new_row)

\* Table::insert_row
Table_insert_row(t, idx, new_row) == Grid_insert_row(t, idx, new_row)

\* Table::push_row that puts the row in front of the first row
Table_push_row_Front(t, new_row) == Grid_insert_row(t, 0, new_row)

\* Table::push_row
Table_push_row(t, new_row) == Grid_insert_row(t, Table_rows(t), new_row)

\* Table::remove_row that removes the first row whatever the index in range
Table_remove_row_First(t, idx) ==
    Grid_remove_row(t, IF idx < Table_rows(t) THEN 0 ELSE idx)

\* Table::remove_row
Table_remove_row(t, idx) == Grid_remove_row(t, idx)

\* Table::replace_row that pushes the new row instead of inserting it at idx
Table_replace_row_Push(t, idx, new_row) ==
    LET old_row == Table_remove_row(t, idx)
        ins     == Table_push_row(old_row.grid, new_row)
    IN  IF ins.panic THEN ins ELSE Done(ins.grid, old_row.out)

\* Table::replace_row: remove_row, then insert_row, returning what
\* remove_row returned
Table_replace_row(t, idx, new_row) ==
    LET old_row == Table_remove_row(t, idx)
        ins     == Table_insert_row(old_row.grid, idx, new_row)
    IN  IF ins.panic THEN ins ELSE Done(ins.grid, old_row.out)

(***************************************************************************)
(* JSON text of a table: an array of arrays of strings, as serde_json      *)
(* writes and reads it.                                                    *)
(***************************************************************************)
QUOTE == "\""

BACKSLASH == "\\"

LF == "\n"

CR == "\r"

\* the strings of a sequence joined by sep
RECURSIVE JoinWith(_, _)
JoinWith(parts, sep) ==
    IF parts = <<>> THEN <<>>
    ELSE IF Len(parts) = 1 THEN parts[1]
    ELSE parts[1] \o sep \o JoinWith(Tail(parts), sep)

\* the escapes of a JSON string: quote, backslash and control characters
RECURSIVE json_escape(_)
json_escape(s) ==
    IF s = <<>> THEN <<>>
    ELSE (CASE Head(s) = QUOTE     -> <<BACKSLASH, QUOTE>>
            [] Head(s) = BACKSLASH -> <<BACKSLASH, BACKSLASH>>
            [] Head(s) = LF        -> <<BACKSLASH, "n">>
            [] Head(s) = CR        -> <<BACKSLASH, "r">>
            [] OTHER               -> <<Head(s)>>) \o json_escape(Tail(s))

json_string(s) == <<QUOTE>> \o json_escape(s) \o <<QUOTE>>

\* impl Serialize for Cell, with quotes around the unescaped string form
Cell_serialize_NoEscape(self) ==
    <<QUOTE>> \o Cell_to_string(self) \o <<QUOTE>>

\* impl Serialize for Cell: the string form as a JSON string
Cell_serialize(self) == json_string(Cell_to_string(self))

\* Grid::iter_rows
Grid_iter_rows(g) == [i \in 1..g.rows |-> Grid_iter_row(g, i - 1).val]

\* impl Serialize for Table: a sequence of the rows, each a sequence of cells
Table_serialize(t) ==
    LET rows_of_cells == Grid_iter_rows(t)
        row_text(cells_in_row) ==
            <<"[">> \o JoinWith([j \in 1..Len(cells_in_row) |->
                                    Cell_serialize(cells_in_row[j])], <<",">>)
                    \o <<"]">>
    IN  <<"[">> \o JoinWith([i \in 1..Len(rows_of_cells) |->
                                row_text(rows_of_cells[i])], <<",">>)
                \o <<"]">>

\* impl ToString for Table
Table_to_string(t) == Table_serialize(t)

JsonFail == [ok |-> FALSE, val |-> <<>>, next |-> 0]

JsonOk(val, next) == [ok |-> TRUE, val |-> val, next |-> next]

\* reads a JSON string whose opening quote is before position i
RECURSIVE json_scan_string(_, _, _)
json_scan_string(txt, i, acc) ==
    IF i > Len(txt) THEN JsonFail
    ELSE IF txt[i] = QUOTE THEN JsonOk(acc, i + 1)
    ELSE IF txt[i] \in {LF, CR} THEN JsonFail
    ELSE IF txt[i] # BACKSLASH
         THEN json_scan_string(txt, i + 1, Append(acc, txt[i]))
    ELSE IF i + 1 > Len(txt) THEN JsonFail
    ELSE CASE txt[i + 1] = QUOTE ->
                  json_scan_string(txt, i + 2, Append(acc, QUOTE))
           [] txt[i + 1] = BACKSLASH ->
                  json_scan_string(txt, i + 2, Append(acc, BACKSLASH))
           [] txt[i + 1] = "n" -> json_scan_string(txt, i + 2, Append(acc, LF))
           [] txt[i + 1] = "r" -> json_scan_string(txt, i + 2, Append(acc, CR))
           [] OTHER -> JsonFail

\* reads the elements of an array from position i on, each read by
\* json_scan_string (level 1) or as an array of strings (level 2), up to
\* the closing bracket
RECURSIVE json_scan_array(_, _, _, _)
json_scan_array(txt, i, acc, level) ==
    LET el == IF i > Len(txt) THEN JsonFail
              ELSE IF level = 1
                   THEN IF txt[i] = QUOTE
                        THEN json_scan_string(txt, i + 1, <<>>) ELSE JsonFail
              ELSE IF txt[i] # "[" THEN JsonFail
              ELSE IF i + 1 <= Len(txt) /\ txt[i + 1] = "]"
                   THEN JsonOk(<<>>, i + 2)
              ELSE json_scan_array(txt, i + 1, <<>>, 1)
    IN  IF ~el.ok \/ el.next > Len(txt) THEN JsonFail
        ELSE IF txt[el.next] = "]"
             THEN JsonOk(Append(acc, el.val), el.next + 1)
        ELSE IF txt[el.next] = ","
             THEN json_scan_array(txt, el.next + 1, Append(acc, el.val), level)
        ELSE JsonFail

\* serde_json::from_str::<Vec<Vec<Cell>>>: the literals of the document, or
\* an error
from_json(txt) ==
    LET doc == IF Len(txt) < 2 \/ txt[1] # "[" THEN JsonFail
               ELSE IF txt[2] = "]" THEN JsonOk(<<>>, 3)
               ELSE json_scan_array(txt, 2, <<>>, 2)
    IN  IF doc.ok /\ doc.next = Len(txt) + 1 THEN doc ELSE JsonFail

\* Table::try_from(&str): Err for malformed JSON, else the decoded table
Table_try_from(value) ==
    LET doc == from_json(value)
        r   == Table_deserialize(doc.val)
    IN  IF ~doc.ok THEN [err |-> TRUE, panic |-> FALSE, grid |-> Table_new]
        ELSE [err |-> FALSE, panic |-> r.panic, grid |-> r.grid]

(***************************************************************************)
(* CSV text of a table.                                                    *)
(***************************************************************************)
\* str::contains(char)
contains(s, c) == \E i \in 1..Len(s) : s[i] = c

\* s.replace("\"", "\"\"")
RECURSIVE replace_quotes(_)
replace_quotes(s) ==
    IF s = <<>> THEN <<>>
    ELSE (IF Head(s) = QUOTE THEN <<QUOTE, QUOTE>> ELSE <<Head(s)>>)
             \o replace_quotes(Tail(s))

\* the bytes write_csv writes for one cell, with the quotes doubled only
\* when the field also holds a comma or a line break
csv_field_QuotesOnlyIfEscaping(s) ==
    LET quotes   == contains(s, QUOTE)
        escaping == contains(s, ",") \/ contains(s, LF) \/ contains(s, CR)
    IN  (IF escaping THEN <<QUOTE>> ELSE <<>>)
          \o (IF quotes /\ escaping THEN replace_quotes(s) ELSE s)
          \o (IF escaping THEN <<QUOTE>> ELSE <<>>)

\* the bytes write_csv writes for one cell whose string form is s
csv_field(s) ==
    LET quotes   == contains(s, QUOTE)
        escaping == contains(s, ",") \/ contains(s, LF) \/ contains(s, CR)
    IN  (IF quotes \/ escaping THEN <<QUOTE>> ELSE <<>>)
          \o (IF quotes THEN replace_quotes(s) ELSE s)
          \o (IF quotes \/ escaping THEN <<QUOTE>> ELSE <<>>)

\* the fields of the cells of the grid, in the order write_csv visits them
csv_fields(t) == [k \in 1..Len(t.data) |-> csv_field(Cell_to_string(t.data[k]))]

\* Table::write_csv with a comma after every field
Table_write_csv_TrailingComma(t) ==
    LET rows_of_cells == Grid_iter_rows(t)
        record(cells) ==
            JoinWith([j \in 1..Len(cells) |->
                         csv_field(Cell_to_string(cells[j])) \o <<",">>], <<>>)
                \o <<LF>>
    IN  JoinWith([i \in 1..Len(rows_of_cells) |-> record(rows_of_cells[i])],
                 <<>>)

\* Table::write_csv: for every row the fields with a comma before every
\* field but the first, then a line feed
Table_write_csv(t) ==
    LET rows_of_cells == Grid_iter_rows(t)
        record(cells) ==
            JoinWith([j \in 1..Len(cells) |->
                         csv_field(Cell_to_string(cells[j]))], <<",">>)
                \o <<LF>>
    IN  JoinWith([i \in 1..Len(rows_of_cells) |-> record(rows_of_cells[i])],
                 <<>>)

\* Table::to_csv: what write_csv wrote, as a String
Table_to_csv(t) == Table_write_csv(t)

(***************************************************************************)
(* Operations on one table.  A panic ends the run.                         *)
(***************************************************************************)
\* cells and literals of the tables
TableCells == {Number(Dec(1, 0)), Text(<<"a">>)}

TableLits == {<<"1">>, <<"a">>}

\* rows and columns handed to the table: never empty, any first cell
\* followed by "a" cells
Lines(n) ==
    {[i \in 1..k |-> IF i = 1 THEN c ELSE Text(<<"a">>)] :
        k \in 1..n, c \in TableCells}

RowArgs == Lines(MaxCols)

ColArgs == Lines(MaxRows)

RECURSIVE SumLen(_)
SumLen(doc) == IF doc = <<>> THEN 0 ELSE Len(Head(doc)) + SumLen(Tail(doc))

\* the table stays within the bounds
Fits(g) == g.rows <= MaxRows /\ g.cols <= MaxCols /\ Len(g.data) <= MaxCells

\* JSON documents: arrays of non-empty arrays of literals, ragged ones too
JsonDocs ==
    {doc \in SeqUpTo(SeqUpTo(TableLits, MaxCols) \ {<<>>}, MaxRows) :
        SumLen(doc) <= MaxCells}

RowIdx == 0..MaxRows

ColIdx == 0..MaxCols

InitTable ==
    /\ cell = Text(<<>>)
    /\ slice = <<>>
    /\ other_slice = <<>>
    /\ table = Table_new
    /\ fault = FALSE
    /\ last = [op |-> "init"]

\* Table::try_from(json), in place of the empty table
TableFromJson(doc) ==
    /\ ~fault
    /\ last.op = "init"
    /\ LET r == Table_deserialize(doc)
       IN  /\ table' = IF r.panic THEN table ELSE r.grid
           /\ fault' = r.panic
           /\ last' = [op |-> "try_from", pre |-> table, arg |-> doc,
                       out |-> r.out]
    /\ UNCHANGED <<cell, slice, other_slice>>

\* table.insert_row(idx, new_row)
TableInsertRow(idx, new_row) ==
    /\ ~fault
    /\ LET r == Table_insert_row(table, idx, new_row)
       IN  /\ Fits(r.grid)
           /\ table' = r.grid
           /\ fault' = r.panic
           /\ last' = [op |-> "insert_row", pre |-> table, idx |-> idx, arg |-> new_row,
                       out |-> r.out]
    /\ UNCHANGED <<cell, slice, other_slice>>

\* table.push_row(new_row)
TablePushRow(new_row) ==
    /\ ~fault
    /\ LET r == Table_push_row(table, new_row)
       IN  /\ Fits(r.grid)
           /\ table' = r.grid
           /\ fault' = r.panic
           /\ last' = [op |-> "push_row", pre |-> table, arg |-> new_row,
                       out |-> r.out]
    /\ UNCHANGED <<cell, slice, other_slice>>

\* table.remove_row(idx)
TableRemoveRow(idx) ==
    /\ ~fault
    /\ LET r == Table_remove_row(table, idx)
       IN  /\ table' = r.grid
           /\ fault' = r.panic
           /\ last' = [op |-> "remove_row", pre |-> table, idx |-> idx,
                       out |-> r.out]
    /\ UNCHANGED <<cell, slice, other_slice>>

\* table.replace_row(idx, new_row)
TableReplaceRow(idx, new_row) ==
    /\ ~fault
    /\ LET r == Table_replace_row(table, idx, new_row)
       IN  /\ Fits(r.grid)
           /\ table' = r.grid
           /\ fault' = r.panic
           /\ last' = [op |-> "replace_row", pre |-> table, idx |-> idx, arg |-> new_row,
                       out |-> r.out]
    /\ UNCHANGED <<cell, slice, other_slice>>

\* table.insert_col(idx, new_col)
TableInsertCol(idx, new_col) ==
    /\ ~fault
    /\ LET r == Table_insert_col(table, idx, new_col)
       IN  /\ Fits(r.grid)
           /\ table' = r.grid
           /\ fault' = r.panic
           /\ last' = [op |-> "insert_col", pre |-> table, idx |-> idx, arg |-> new_col,
                       out |-> r.out]
    /\ UNCHANGED <<cell, slice, other_slice>>

\* table.push_col(new_col)
TablePushCol(new_col) ==
    /\ ~fault
    /\ LET r == Table_push_col(table, new_col)
       IN  /\ Fits(r.grid)
           /\ table' = r.grid
           /\ fault' = r.panic
           /\ last' = [op |-> "push_col", pre |-> table, arg |-> new_col,
                       out |-> r.out]
    /\ UNCHANGED <<cell, slice, other_slice>>

\* table.remove_col(idx)
TableRemoveCol(idx) ==
    /\ ~fault
    /\ LET r == Table_remove_col(table, idx)
       IN  /\ table' = r.grid
           /\ fault' = r.panic
           /\ last' = [op |-> "remove_col", pre |-> table, idx |-> idx,
                       out |-> r.out]
    /\ UNCHANGED <<cell, slice, other_slice>>

\* table.replace_col(idx, new_col)
TableReplaceCol(idx, new_col) ==
    /\ ~fault
    /\ LET r == Table_replace_col(table, idx, new_col)
       IN  /\ Fits(r.grid)
           /\ table' = r.grid
           /\ fault' = r.panic
           /\ last' = [op |-> "replace_col", pre |-> table, idx |-> idx, arg |-> new_col,
                       out |-> r.out]
    /\ UNCHANGED <<cell, slice, other_slice>>

\* table.mut_cell(row, col), and replace_value on the cell it finds
TableMutCell(row, col, new_value) ==
    /\ ~fault
    /\ LET r == Table_mut_cell(table, row, col)
       IN  /\ table' = IF r.some
                       THEN [table EXCEPT !.data[row * table.cols + col + 1] =
                                              replace_value(@, new_value)]
                       ELSE table
           /\ last' = [op |-> "mut_cell", pre |-> table, row |-> row,
                       col |-> col, arg |-> new_value, out |-> r]
    /\ UNCHANGED <<cell, slice, other_slice, fault>>

\* table.cell(row, col)
TableCell(row, col) ==
    /\ ~fault
    /\ last' = [op |-> "cell", pre |-> table, row |-> row, col |-> col,
                out |-> Table_cell(table, row, col)]
    /\ UNCHANGED <<cell, slice, other_slice, table, fault>>

\* table.row(row)
TableRow(row) ==
    /\ ~fault
    /\ LET r == Table_row(table, row)
       IN  /\ fault' = r.panic
           /\ last' = [op |-> "row", pre |-> table, row |-> row,
                       out |-> r.out]
    /\ UNCHANGED <<cell, slice, other_slice, table>>

\* table.col(col)
TableCol(col) ==
    /\ ~fault
    /\ LET r == Table_col(table, col)
       IN  /\ fault' = r.panic
           /\ last' = [op |-> "col", pre |-> table, col |-> col,
                       out |-> r.out]
    /\ UNCHANGED <<cell, slice, other_slice, table>>

NextTable ==
    \/ \E doc \in JsonDocs : TableFromJson(doc)
    \/ \E idx \in RowIdx, new_row \in RowArgs : TableInsertRow(idx, new_row)
    \/ \E new_row \in RowArgs : TablePushRow(new_row)
    \/ \E idx \in RowIdx : TableRemoveRow(idx)
    \/ \E idx \in RowIdx, new_row \in RowArgs : TableReplaceRow(idx, new_row)
    \/ \E idx \in ColIdx, new_col \in ColArgs : TableInsertCol(idx, new_col)
    \/ \E new_col \in ColArgs : TablePushCol(new_col)
    \/ \E idx \in ColIdx : TableRemoveCol(idx)
    \/ \E idx \in ColIdx, new_col \in ColArgs : TableReplaceCol(idx, new_col)
    \/ \E row \in RowIdx, col \in ColIdx, new_value \in TableCells :
           TableMutCell(row, col, new_value)
    \/ \E row \in RowIdx, col \in ColIdx : TableCell(row, col)
    \/ \E row \in RowIdx : TableRow(row)
    \/ \E col \in ColIdx : TableCol(col)

SpecTable == InitTable /\ [][NextTable]_vars

(***************************************************************************)
(* A Slice taken out of a table: Table::row and Table::col build the Slice *)
(* from clones of the cells, the caller mutates the Slice it owns and may  *)
(* hand it back to the table.                                              *)
(***************************************************************************)
\* tables decoded from JSON
JsonTables ==
    {Table_deserialize(doc).grid : doc \in {d \in JsonDocs :
                                               ~Table_deserialize(d).panic}}

InitExtract ==
    /\ cell = Text(<<>>)
    /\ slice = <<>>
    /\ other_slice = <<>>
    /\ table \in JsonTables
    /\ fault = FALSE
    /\ last = [op |-> "init"]

\* let slice = table.row(row).unwrap()
ExtractRow(row) ==
    /\ ~fault
    /\ LET r == Table_row(table, row)
       IN  /\ r.out.some
           /\ slice' = r.out.val
           /\ fault' = r.panic
           /\ last' = [op |-> "row", pre |-> table, row |-> row,
                       out |-> r.out]
    /\ UNCHANGED <<cell, other_slice, table>>

\* let slice = table.col(col).unwrap()
ExtractCol(col) ==
    /\ ~fault
    /\ LET r == Table_col(table, col)
       IN  /\ r.out.some
           /\ slice' = r.out.val
           /\ fault' = r.panic
           /\ last' = [op |-> "col", pre |-> table, col |-> col,
                       out |-> r.out]
    /\ UNCHANGED <<cell, other_slice, table>>

NextExtract ==
    \/ \E row \in RowIdx : ExtractRow(row)
    \/ \E col \in ColIdx : ExtractCol(col)
    \/ \E value \in ScalarArgs : SliceAddValue(value)
    \/ \E value \in ScalarArgs : SliceSubValue(value)
    \/ \E value \in ScalarArgs : SliceMulValue(value)
    \/ \E value \in ScalarArgs : SliceDivValue(value)
    \/ \E idx \in RowIdx, new_value \in TableCells :
           SliceMutCell(idx, new_value)

SpecExtract == InitExtract /\ [][NextExtract]_vars

(***************************************************************************)
(* A table decoded from JSON, changed and written as JSON and CSV text.    *)
(***************************************************************************)
\* literals of the documents: texts, numbers in several spellings, and
\* texts with the characters JSON and CSV treat specially
FormatLits ==
    {<<>>, <<"a">>, <<"+", "2">>, <<"-", "2">>, <<"1", ".", "0">>,
     <<"1", ",", "0", "0", "0">>, <<"1", ",", "0">>, <<"a", ",", "b">>,
     <<QUOTE, "a", QUOTE>>, <<LF>>, <<CR>>, <<BACKSLASH>>}

\* the documents of non-empty rows of at most MaxCols literals with at most
\* n literals in all
RECURSIVE DocsWithin(_)
DocsWithin(n) ==
    {<<>>} \cup
    UNION {{<<r>> \o d : r \in [1..k -> FormatLits], d \in DocsWithin(n - k)} :
              k \in 1..Min(n, MaxCols)}

FormatDocs == {doc \in DocsWithin(MaxTextCells) : Len(doc) <= MaxRows}

\* divisors of the cells: zero and one with a rounded quotient
FormatDivisors == {Dec(0, 0), Dec(3, 0)}

\* table.to_string()
TableToString ==
    /\ ~fault
    /\ last' = [op |-> "to_string", pre |-> table,
                out |-> Table_to_string(table)]
    /\ UNCHANGED <<cell, slice, other_slice, table, fault>>

\* table.write_csv(&mut writer) on an empty writer
TableWriteCsv ==
    /\ ~fault
    /\ last' = [op |-> "write_csv", pre |-> table,
                fields |-> csv_fields(table), out |-> Table_write_csv(table)]
    /\ UNCHANGED <<cell, slice, other_slice, table, fault>>

\* table.to_csv()
TableToCsv ==
    /\ ~fault
    /\ last' = [op |-> "to_csv", pre |-> table, out |-> Table_to_csv(table)]
    /\ UNCHANGED <<cell, slice, other_slice, table, fault>>

\* table.mut_cell(row, col), and div_value on the cell it finds
TableCellDivValue(row, col, value) ==
    /\ ~fault
    /\ Table_mut_cell(table, row, col).some
    /\ InBounds(Table_mut_cell(table, row, col).val)
    /\ table' = [table EXCEPT !.data[row * table.cols + col + 1] =
                                  Cell_div_value(@, value)]
    /\ last' = [op |-> "cell_div_value", pre |-> table, row |-> row,
                col |-> col, arg |-> value]
    /\ UNCHANGED <<cell, slice, other_slice, fault>>

NextFormats ==
    \/ last.op = "init" /\ \E doc \in FormatDocs : TableFromJson(doc)
    \/ \E row \in RowIdx, col \in ColIdx, value \in FormatDivisors :
           TableCellDivValue(row, col, value)
    \/ TableToString
    \/ TableWriteCsv
    \/ TableToCsv

SpecFormats == InitTable /\ [][NextFormats]_vars

(***************************************************************************)
(* Properties of Cell.                                                     *)
(***************************************************************************)
BinOps == {"add", "sub", "mul", "div"}

MutOps == {"add_value", "sub_value", "mul_value", "div_value"}

Sentinel == Text(DIV0)

\* q = a + b, q = a - b, q = a * b and q * b = a, in integers
IsSum(q, a, b) ==
    LET s == Max(q.s, Max(a.s, b.s))
    IN  Rescale(q, s) = Rescale(a, s) + Rescale(b, s)

IsDifference(q, a, b) ==
    LET s == Max(q.s, Max(a.s, b.s))
    IN  Rescale(q, s) = Rescale(a, s) - Rescale(b, s)

IsProduct(q, a, b) == q.m * Pow10(a.s + b.s) = a.m * b.m * Pow10(q.s)

IsQuotient(q, a, b) == q.m * b.m * Pow10(a.s) = a.m * Pow10(q.s + b.s)

\* a / b has a finite decimal expansion (b # 0)
HasExactQuotient(a, b) ==
    Terminates(Abs(a.m) * Pow10(b.s), Abs(b.m) * Pow10(a.s))

\* q has RoundDigits fractional digits and is within half a unit of its
\* last digit of a / b
IsRoundedQuotient(q, a, b) ==
    LET n == a.m * Pow10(b.s) * Sign(b.m)
        d == Abs(b.m) * Pow10(a.s)
    IN  /\ q.s = RoundDigits
        /\ 2 * Abs(q.m * d - n * Pow10(RoundDigits)) <= d

IsExact(op, q, a, b) ==
    CASE op = "add" -> IsSum(q, a, b)
      [] op = "sub" -> IsDifference(q, a, b)
      [] op = "mul" -> IsProduct(q, a, b)
      [] op = "div" -> IsQuotient(q, a, b)

BothNumbers ==
    /\ last.op \in BinOps
    /\ last.self.tag = "Number"
    /\ last.other.tag = "Number"

C1_WitnessDivZero ==
    /\ BothNumbers
    /\ last.op = "div"
    /\ last.other.d.m = 0
    /\ last.out = Sentinel

\* C2: when at least one operand of a binary operator is Text, the result
\* is the left operand unchanged, variant and content.
C2_LeftPassthrough ==
    (/\ last.op \in BinOps
     /\ (last.self.tag = "Text" \/ last.other.tag = "Text"))
        => last.out = last.self

\* Text / Number(0) has returned the left Text
C2_Witness ==
    /\ last.op = "div"
    /\ last.self.tag = "Text"
    /\ last.other = Number(Dec(0, 0))
    /\ last.out = last.self
    /\ last.out # Sentinel

\* the Decimal the mutator op computes from d and value (value # 0 for div)
DecOp(op, d, value) ==
    CASE op = "add_value" -> DecAdd(d, value)
      [] op = "sub_value" -> DecSub(d, value)
      [] op = "mul_value" -> DecMul(d, value)
      [] op = "div_value" -> DecDiv(d, value)

\* C3: the in-place mutators leave a Text cell unmodified for every value,
\* zero included, and replace a Number cell by the Number the operation
\* gives; div_value(0) replaces a Number cell by the Text cell "#DIV/0".
C3_Mutators ==
    last.op \in MutOps =>
        IF last.self.tag = "Text" THEN cell = last.self
        ELSE IF last.op = "div_value" /\ last.value.m = 0
        THEN cell = Sentinel
        ELSE /\ cell.tag = "Number"
             /\ DecEq(cell.d, DecOp(last.op, last.self.d, last.value))

\* div_value(0) has been applied to a Text cell
C3_Witness ==
    /\ last.op = "div_value"
    /\ last.value.m = 0
    /\ last.self.tag = "Text"
    /\ cell = last.self
    /\ cell # Sentinel

\* C4: a sentinel cell arises only from a division of a Number cell by
\* zero, and every operation on it other than replace_value leaves it the
\* Text cell "#DIV/0".
C4_SentinelStable ==
    /\ (cell = Sentinel /\ last.op # "init" /\ last.self # Sentinel)
           => (/\ last.op = "div_value"
               /\ last.self.tag = "Number"
               /\ last.value.m = 0)
    /\ (last.op \notin {"init", "replace_value"} /\ last.self = Sentinel)
           => cell = Sentinel

\* a sentinel cell has been divided by zero again
C4_Witness ==
    /\ last.op = "div_value"
    /\ last.value.m = 0
    /\ last.self = Sentinel
    /\ cell = Sentinel

\* the orderings, on integers and on characters
NumOrd(a, b) ==
    LET x == a.m * Pow10(b.s)
        y == b.m * Pow10(a.s)
    IN  IF x < y THEN Less ELSE IF x = y THEN Equal ELSE Greater

LexLess(s1, s2) ==
    \E i \in 1..(Len(s2)) :
        /\ i <= Len(s1) + 1
        /\ \A j \in 1..(i - 1) : s1[j] = s2[j]
        /\ (i = Len(s1) + 1 \/ CharCode(s1[i]) < CharCode(s2[i]))

LexOrd(s1, s2) ==
    IF s1 = s2 THEN Equal ELSE IF LexLess(s1, s2) THEN Less ELSE Greater

\* the variant a right-hand operand is classified into
ValueIsNumber(v) ==
    \/ v.kind = "dec"
    \/ v.kind = "cell" /\ v.cell.tag = "Number"
    \/ v.kind = "str" /\ v.str \in {<<"1">>, <<"1", ".", "0">>, <<"+", "2">>}

\* C5: compare_value classifies its right-hand operand and returns the
\* decimal ordering for two Numbers, the lexicographic ordering for two
\* Texts and None for a Number and a Text; equal_value is true exactly when
\* the operands have the same variant and equal content.
C5_Compare ==
    /\ last.op \in {"compare_value", "equal_value"} =>
           (into_cell(last.value).tag = "Number") = ValueIsNumber(last.value)
    /\ last.op = "compare_value" =>
        LET o == into_cell(last.value)
        IN  IF last.self.tag = "Number" /\ o.tag = "Number"
            THEN last.out = SomeOrd(NumOrd(last.self.d, o.d))
            ELSE IF last.self.tag = "Text" /\ o.tag = "Text"
            THEN last.out = SomeOrd(LexOrd(last.self.s, o.s))
            ELSE last.out.some = FALSE
    /\ last.op = "equal_value" =>
        LET o == into_cell(last.value)
        IN  last.out =
              (\/ /\ last.self.tag = "Number"
                  /\ o.tag = "Number"
                  /\ NumOrd(last.self.d, o.d) = Equal
               \/ /\ last.self.tag = "Text"
                  /\ o.tag = "Text"
                  /\ last.self.s = o.s)

\* the Number 1 has been compared with the literal "1.0" and found equal
C5_Witness ==
    /\ last.op = "compare_value"
    /\ last.self = Number(Dec(1, 0))
    /\ last.value = [kind |-> "str", str |-> <<"1", ".", "0">>]
    /\ last.out = SomeOrd(Equal)

\* a Text cell "1" has been compared with the Decimal 1: incomparable
C5_WitnessMixed ==
    /\ last.op = "equal_value"
    /\ last.self = Text(<<"1">>)
    /\ last.value = [kind |-> "dec", dec |-> Dec(1, 0)]
    /\ last.out = FALSE

(***************************************************************************)
(* Properties of Slice.                                                    *)
(***************************************************************************)
SliceBinOps == {"slice_add", "slice_sub", "slice_mul", "slice_div"}

SliceMutOps ==
    {"slice_add_value", "slice_sub_value", "slice_mul_value",
     "slice_div_value"}

\* the binary operator of Slice named op
SliceOp(op, l, r) ==
    CASE op = "slice_add" -> Slice_add(l, r)
      [] op = "slice_sub" -> Slice_sub(l, r)
      [] op = "slice_mul" -> Slice_mul(l, r)
      [] op = "slice_div" -> Slice_div(l, r)

\* the binary operator of Cell that corresponds to the Slice operator op
CellOpOf(op, l, r) ==
    CASE op = "slice_add" -> Cell_add(l, r)
      [] op = "slice_sub" -> Cell_sub(l, r)
      [] op = "slice_mul" -> Cell_mul(l, r)
      [] op = "slice_div" -> Cell_div(l, r)

\* C6: the result of a Slice binary operator has the length of the left
\* slice; where the right slice has no cell the result cell equals the left
\* cell; the cells of the right slice beyond the left slice's length have
\* no influence.
C6_LengthAndPadding ==
    last.op \in SliceBinOps =>
        LET l == last.self
            r == last.other
        IN  /\ Len(last.out) = Len(l)
            /\ \A i \in 1..Len(l) : i > Len(r) => CellEq(last.out[i], l[i])
            /\ Len(r) > Len(l) =>
                   last.out = SliceOp(last.op, l, SubSeq(r, 1, Len(l)))

\* a Number cell of the left slice had no partner and was kept
C6_Witness ==
    /\ last.op = "slice_mul"
    /\ Len(last.self) = 3
    /\ Len(last.other) = 1
    /\ last.self[1] = Number(Dec(2, 0))
    /\ last.other[1] = Number(Dec(2, 0))
    /\ last.self[3] = Number(Dec(2, 0))
    /\ last.out[1] = Number(Dec(4, 0))
    /\ last.out[3] = Number(Dec(2, 0))

\* the right slice was the longer one
C6_WitnessLongRight ==
    /\ last.op = "slice_add"
    /\ Len(last.self) = 1
    /\ Len(last.other) = 3
    /\ Len(last.out) = 1

\* C7: at every index present in both slices the result cell of a Slice
\* binary operator equals the result of the corresponding Cell operator on
\* the two cells: the left cell when either is Text, "#DIV/0" when a Number
\* is divided by a zero Number.
C7_Elementwise ==
    last.op \in SliceBinOps =>
        \A i \in 1..Min(Len(last.self), Len(last.other)) :
            LET l == last.self[i]
                r == last.other[i]
            IN  /\ CellEq(last.out[i], CellOpOf(last.op, l, r))
                /\ (l.tag = "Text" \/ r.tag = "Text")
                       => CellEq(last.out[i], l)
                /\ (/\ last.op = "slice_div"
                    /\ l.tag = "Number"
                    /\ r.tag = "Number"
                    /\ r.d.m = 0) => last.out[i] = Sentinel

\* a Number over a Text, a Number over zero and a Number over a Number
C7_Witness ==
    /\ last.op = "slice_div"
    /\ last.self = <<Number(Dec(2, 0)), Number(Dec(2, 0)), Number(Dec(2, 0))>>
    /\ last.other = <<Text(<<"a">>), Number(Dec(0, 0)), Number(Dec(2, 0))>>
    /\ last.out = <<Number(Dec(2, 0)), Sentinel, Number(Dec(1, 0))>>

\* the Decimal the scalar mutator op computes (value # 0 for div_value)
SliceDecOp(op, d, value) ==
    CASE op = "slice_add_value" -> DecAdd(d, value)
      [] op = "slice_sub_value" -> DecSub(d, value)
      [] op = "slice_mul_value" -> DecMul(d, value)
      [] op = "slice_div_value" -> DecDiv(d, value)

\* C8: a scalar mutator of Slice keeps the length, leaves every Text cell
\* unchanged and applies the operation to every Number cell; with
\* div_value(0) every Number cell becomes "#DIV/0".
C8_ScalarMutators ==
    last.op \in SliceMutOps =>
        /\ Len(slice) = Len(last.self)
        /\ \A i \in 1..Len(last.self) :
               LET c == last.self[i]
               IN  IF c.tag = "Text" THEN slice[i] = c
                   ELSE IF last.op = "slice_div_value" /\ last.value.m = 0
                   THEN slice[i] = Sentinel
                   ELSE /\ slice[i].tag = "Number"
                        /\ DecEq(slice[i].d,
                                 SliceDecOp(last.op, c.d, last.value))

\* ["2","a","1"] divided by zero has become ["#DIV/0","a","#DIV/0"]
C8_Witness ==
    /\ last.op = "slice_div_value"
    /\ last.value.m = 0
    /\ last.self = <<Number(Dec(2, 0)), Text(<<"a">>), Number(Dec(1, 0))>>
    /\ slice = <<Sentinel, Text(<<"a">>), Sentinel>>

\* C9 as stated: after Slice::div_value(0) every cell of the slice, Text or
\* Number, is "#DIV/0".
C9_AllSentinel ==
    (last.op = "slice_div_value" /\ last.value.m = 0) =>
        \A i \in 1..Len(slice) : slice[i] = Sentinel

\* C9 amended: a scalar division by zero leaves the Text cells unchanged,
\* as add, sub and mul do: after Slice::div_value(0) every cell that was a
\* Number is "#DIV/0" and every cell that was Text is as before.
C9_TextKept ==
    /\ (last.op = "slice_div_value" /\ last.value.m = 0) =>
           \A i \in 1..Len(slice) :
               slice[i] = IF last.self[i].tag = "Number" THEN Sentinel
                          ELSE last.self[i]
    /\ last.op \in {"slice_add_value", "slice_sub_value", "slice_mul_value"} =>
           \A i \in 1..Len(slice) :
               last.self[i].tag = "Text" => slice[i] = last.self[i]

\* a slice with a Text cell other than the sentinel has been divided by zero
C9_Witness ==
    /\ last.op = "slice_div_value"
    /\ last.value.m = 0
    /\ \E i \in 1..Len(last.self) :
           last.self[i] = Text(<<"a">>) /\ slice[i] = Text(<<"a">>)
    /\ \E i \in 1..Len(last.self) :
           last.self[i].tag = "Number" /\ slice[i] = Sentinel

(***************************************************************************)
(* Properties of Table.                                                    *)
(***************************************************************************)
TableReadOps == {"cell", "mut_cell", "row", "col"}

\* the index of the last read lies outside the table it was read from
OutOfRange ==
    CASE last.op \in {"cell", "mut_cell"} ->
             last.row >= Table_rows(last.pre) \/ last.col >= Table_cols(last.pre)
      [] last.op = "row" -> last.row >= Table_rows(last.pre)
      [] last.op = "col" -> last.col >= Table_cols(last.pre)

\* C10: cell, mut_cell, row and col return None exactly when the index is
\* out of range (row >= rows() or col >= cols()), they never fault, and
\* cell, row and col leave the table as it was.
C10_Reads ==
    last.op \in TableReadOps =>
        /\ ~fault
        /\ last.out.some <=> ~OutOfRange
        /\ last.op # "mut_cell" => table = last.pre

\* row(rows()) on a table that has rows: the first index out of range
C10_Witness ==
    /\ last.op = "row"
    /\ Table_rows(last.pre) > 0
    /\ last.row = Table_rows(last.pre)
    /\ ~last.out.some
    /\ ~fault
    /\ table = last.pre

\* cell(row, col) of the last cell of a full table
C10_WitnessPresent ==
    /\ last.op = "cell"
    /\ Table_rows(last.pre) = MaxRows
    /\ Table_cols(last.pre) = MaxCols
    /\ last.row = MaxRows - 1
    /\ last.col = MaxCols - 1
    /\ last.out.some

(***************************************************************************)
(* Properties of a Slice taken out of a table.                             *)
(***************************************************************************)
SliceWriteOps == SliceMutOps \cup {"slice_mut_cell"}

\* the slice s is a row or a column of the table t
IsLineOf(t, s) ==
    \/ \E row \in 0..(Table_rows(t) - 1) : Table_row(t, row).out = SomeSlice(s)
    \/ \E col \in 0..(Table_cols(t) - 1) : Table_col(t, col).out = SomeSlice(s)

\* C11: a Slice returned by Table::row or Table::col is a copy: every
\* mutation of it (replace_value through mut_cell, the scalar mutators)
\* leaves every cell of the table, rows() and cols() unchanged.
C11_IndependentCopy ==
    [][last'.op \in SliceWriteOps =>
          /\ table' = table
          /\ Table_rows(table') = Table_rows(table)
          /\ Table_cols(table') = Table_cols(table)]_vars

\* a cell of an extracted row or column has been replaced through mut_cell
\* and the table still holds the line as it was extracted
C11_Witness ==
    /\ last.op = "slice_mut_cell"
    /\ last.out
    /\ slice # last.self
    /\ IsLineOf(table, last.self)
    /\ ~IsLineOf(table, slice)

\* the same after a scalar mutator
C11_WitnessScalar ==
    /\ last.op = "slice_add_value"
    /\ slice # last.self
    /\ IsLineOf(table, last.self)
    /\ ~IsLineOf(table, slice)

(***************************************************************************)
(* Properties of the row and column operations of Table.                   *)
(***************************************************************************)
\* row i and column i of a table, for i in range
RowOf(t, i) == Table_row(t, i).out.val

ColOf(t, i) == Table_col(t, i).out.val

\* the index the last insert or push inserted at
InsertIdx ==
    CASE last.op \in {"insert_row", "insert_col"} -> last.idx
      [] last.op = "push_row" -> Table_rows(last.pre)
      [] last.op = "push_col" -> Table_cols(last.pre)

\* C12: insert_row(idx, r) with idx <= rows() and len(r) = cols() adds one
\* row, makes row(idx) equal r, keeps the rows before idx and moves each
\* former row i >= idx to i + 1; push_row(r) is insert_row(rows(), r); the
\* same for insert_col / push_col with columns.
C12_Insert ==
    /\ (/\ last.op \in {"insert_row", "push_row"}
        /\ InsertIdx <= Table_rows(last.pre)
        /\ Len(last.arg) = Table_cols(last.pre))
       => /\ ~fault
          /\ Table_rows(table) = Table_rows(last.pre) + 1
          /\ Table_cols(table) = Table_cols(last.pre)
          /\ Table_row(table, InsertIdx).out = SomeSlice(last.arg)
          /\ \A i \in 0..(Table_rows(last.pre) - 1) :
                 RowOf(table, IF i < InsertIdx THEN i ELSE i + 1)
                     = RowOf(last.pre, i)
    /\ (/\ last.op \in {"insert_col", "push_col"}
        /\ InsertIdx <= Table_cols(last.pre)
        /\ Len(last.arg) = Table_rows(last.pre))
       => /\ ~fault
          /\ Table_cols(table) = Table_cols(last.pre) + 1
          /\ Table_rows(table) = Table_rows(last.pre)
          /\ Table_col(table, InsertIdx).out = SomeSlice(last.arg)
          /\ \A i \in 0..(Table_cols(last.pre) - 1) :
                 ColOf(table, IF i < InsertIdx THEN i ELSE i + 1)
                     = ColOf(last.pre, i)

\* a row has been inserted before the only row of a table, which moved to
\* index 1
C12_Witness ==
    /\ last.op = "insert_row"
    /\ last.idx = 0
    /\ Table_rows(last.pre) = 1
    /\ Table_cols(last.pre) = 2
    /\ Len(last.arg) = 2
    /\ last.arg # RowOf(last.pre, 0)
    /\ RowOf(table, 0) = last.arg
    /\ RowOf(table, 1) = RowOf(last.pre, 0)

\* a column has been inserted before the only column of a table of two rows
C12_WitnessCol ==
    /\ last.op = "insert_col"
    /\ last.idx = 0
    /\ Table_cols(last.pre) = 1
    /\ Table_rows(last.pre) = 2
    /\ last.arg # ColOf(last.pre, 0)
    /\ ColOf(table, 0) = last.arg
    /\ ColOf(table, 1) = ColOf(last.pre, 0)

C13_WitnessAbsent ==
    /\ last.op = "remove_col"
    /\ Table_cols(last.pre) > 0
    /\ last.idx = Table_cols(last.pre)
    /\ ~last.out.some
    /\ table = last.pre

C14_WitnessOnlyCol ==
    /\ last.op = "replace_col"
    /\ last.idx = 0
    /\ Table_cols(last.pre) = 1
    /\ Table_rows(last.pre) = 2
    /\ Len(last.arg) = 2
    /\ last.arg # ColOf(last.pre, 0)
    /\ ColOf(table, 0) = last.arg

\* every row of the grid has cols cells and every column rows cells
Rectangular(g) ==
    /\ Len(g.data) = g.rows * g.cols
    /\ \A i \in 0..(g.rows - 1) : Len(RowOf(g, i)) = g.cols
    /\ \A j \in 0..(g.cols - 1) : Len(ColOf(g, j)) = g.rows

Mismatched ==
    \/ /\ last.op \in {"insert_row", "push_row"}
       /\ Table_rows(last.pre) > 0
       /\ Len(last.arg) # Table_cols(last.pre)
    \/ /\ last.op \in {"insert_col", "push_col"}
       /\ Table_cols(last.pre) > 0
       /\ Len(last.arg) # Table_rows(last.pre)

C17_NoFault == ~fault

\* C18: index lookup on a Slice never faults: for idx >= len() cell(idx) and
\* mut_cell(idx) report the cell as absent, for idx < len() they yield the
\* cell at idx.
C18_SliceLookup ==
    /\ last.op = "slice_cell" =>
          /\ ~fault
          /\ last.idx < Slice_len(last.self) =>
                 last.out = last.self[last.idx + 1]
    /\ last.op = "slice_mut_cell" =>
          /\ ~fault
          /\ last.out <=> last.idx < Slice_len(last.self)

(***************************************************************************)
(* Properties of the JSON and CSV text of a table.                         *)
(***************************************************************************)
\* the tables have the same shape and cell-wise the same variant and value
SameTable(t1, t2) ==
    /\ Table_rows(t1) = Table_rows(t2)
    /\ Table_cols(t1) = Table_cols(t2)
    /\ Len(t1.data) = Len(t2.data)
    /\ \A k \in 1..Len(t1.data) :
           t1.data[k].tag = t2.data[k].tag /\ CellEq(t1.data[k], t2.data[k])

\* C19: a table decoded from JSON, and then changed by table operations
\* whose cells come from the classifier or from arithmetic, is decoded from
\* its to_string() as a table with the same rows(), cols() and cell-wise
\* equal variants and values, whose to_string() is the same text.
C19_JsonRoundTrip ==
    last.op = "to_string" =>
        LET back == Table_try_from(last.out)
        IN  /\ ~back.err
            /\ ~back.panic
            /\ SameTable(back.grid, last.pre)
            /\ Table_to_string(back.grid) = last.out

\* the text of a table holding a grouped number and a text with a quote
C19_Witness ==
    /\ last.op = "to_string"
    /\ Len(last.pre.data) = 2
    /\ last.pre.data[1] = Number(Dec(1000, 0))
    /\ last.pre.data[2] = Text(<<QUOTE, "a", QUOTE>>)
    /\ Table_try_from(last.out).grid = last.pre

\* the text of a table holding a rounded quotient and a sentinel
C19_WitnessArithmetic ==
    /\ last.op = "to_string"
    /\ Len(last.pre.data) = 2
    /\ last.pre.data[1] = Number(Dec(67, 2))
    /\ last.pre.data[2] = Sentinel
    /\ Table_try_from(last.out).grid = last.pre

\* the characters that make write_csv quote a field
NeedsQuoting(s) ==
    contains(s, ",") \/ contains(s, QUOTE) \/ contains(s, CR) \/ contains(s, LF)

\* the number of double quotes among the first n characters of s
QuotesBefore(s, n) == Cardinality({i \in 1..n : s[i] = QUOTE})

\* inner is s with every double quote written twice and every other
\* character written once, in order
QuotesDoubled(s, inner) ==
    /\ Len(inner) = Len(s) + QuotesBefore(s, Len(s))
    /\ \A i \in 1..Len(s) :
           LET p == i + QuotesBefore(s, i - 1)
           IN  /\ inner[p] = s[i]
               /\ s[i] = QUOTE => inner[p + 1] = QUOTE

\* C20: write_csv puts a field between double quotes exactly when the
\* string form of the cell holds a comma, a double quote, a carriage return
\* or a line feed; between the quotes every double quote of the string form
\* is doubled and every other character is unchanged; any other field is
\* the string form itself.
C20_CsvQuoting ==
    last.op = "write_csv" =>
        /\ Len(last.fields) = Len(last.pre.data)
        /\ \A k \in 1..Len(last.pre.data) :
               LET s == Cell_to_string(last.pre.data[k])
                   f == last.fields[k]
               IN  IF NeedsQuoting(s)
                   THEN /\ Len(f) >= 2
                        /\ f[1] = QUOTE
                        /\ f[Len(f)] = QUOTE
                        /\ QuotesDoubled(s, SubSeq(f, 2, Len(f) - 1))
                   ELSE f = s
        /\ Len(last.pre.data) = 1 => last.out = last.fields[1] \o <<LF>>

\* a text with two double quotes is written with the quotes doubled,
\* between double quotes
C20_Witness ==
    /\ last.op = "write_csv"
    /\ Len(last.pre.data) = 1
    /\ last.pre.data[1] = Text(<<QUOTE, "a", QUOTE>>)
    /\ last.out = <<QUOTE, QUOTE, QUOTE, "a", QUOTE, QUOTE, QUOTE, LF>>

\* a text with a comma is written between double quotes, a number verbatim
C20_WitnessComma ==
    /\ last.op = "write_csv"
    /\ Len(last.pre.data) = 2
    /\ last.pre.data[1] = Text(<<"a", ",", "b">>)
    /\ last.pre.data[2] = Number(Dec(1000, 0))
    /\ last.fields = << <<QUOTE, "a", ",", "b", QUOTE>>,
                        <<"1", "0", "0", "0">> >>

\* the number of characters of the first n fields
RECURSIVE FieldsLen(_, _)
FieldsLen(fields, n) ==
    IF n = 0 THEN 0 ELSE FieldsLen(fields, n - 1) + Len(fields[n])

\* C21: write_csv writes the rows in row-major order: every field of the
\* R x C table in turn, each followed by one comma when another field of
\* its row follows and by one line feed when it ends its row, and nothing
\* else, so R records of C fields with C-1 delimiter commas and no carriage
\* return of its own; the empty table gives the empty output; to_csv
\* returns what write_csv writes.
C21_CsvLayout ==
    /\ last.op = "write_csv" =>
           LET R      == Table_rows(last.pre)
               C      == Table_cols(last.pre)
               fields == last.fields
               start(k) == FieldsLen(fields, k - 1) + k
           IN  /\ Len(fields) = R * C
               /\ Len(last.out) = FieldsLen(fields, R * C) + R * C
               /\ \A k \in 1..(R * C) :
                      /\ SubSeq(last.out, start(k), start(k) + Len(fields[k]) - 1)
                             = fields[k]
                      /\ last.out[start(k) + Len(fields[k])]
                             = (IF k % C = 0 THEN LF ELSE ",")
               /\ R = 0 => last.out = <<>>
    /\ last.op = "to_csv" => last.out = Table_write_csv(last.pre)

\* a table of two rows and one column is written as two lines
C21_Witness ==
    /\ last.op = "write_csv"
    /\ Table_rows(last.pre) = 2
    /\ Table_cols(last.pre) = 1
    /\ last.pre.data = <<Text(<<"a">>), Number(Dec(-2, 0))>>
    /\ last.out = <<"a", LF, "-", "2", LF>>

\* a row of two fields is written with one comma between them
C21_WitnessRow ==
    /\ last.op = "write_csv"
    /\ Table_rows(last.pre) = 1
    /\ Table_cols(last.pre) = 2
    /\ last.pre.data = <<Text(<<"a">>), Text(<<>>)>>
    /\ last.out = <<"a", ",", LF>>

\* the empty table is written as nothing, by write_csv and by to_csv
C21_WitnessEmpty ==
    /\ last.op = "to_csv"
    /\ Table_rows(last.pre) = 0
    /\ last.out = <<>>

(***************************************************************************)
(* The example of the crate: decode a table, push a row, push the sum of   *)
(* two rows, multiply one cell, write the table as CSV.  The literals, the *)
(* rows and the cell vary around those of the example.                     *)
(***************************************************************************)
\* first cells of the second row of the JSON text
ExampleLits == {<<"1">>, <<"a">>, <<"1", ".", "0">>}

\* [["a","b","c"],[lit,"2","3"]]
ExampleJson(lit) ==
    <<"[", "[", QUOTE, "a", QUOTE, ",", QUOTE, "b", QUOTE, ",",
      QUOTE, "c", QUOTE, "]", ",", "[">>
        \o json_string(lit)
        \o <<",", QUOTE, "2", QUOTE, ",", QUOTE, "3", QUOTE, "]", "]">>

\* vectors of literals handed to Slice::from, one of them too short
ExampleRows ==
    {<< <<"4">>, <<"5">>, <<"6">> >>, << <<"a">>, <<"5">>, <<"6">> >>,
     << <<"4">>, <<"5">> >>}

\* Slice::from(vec![...]) of string literals
Slice_from(lits) == [i \in 1..Len(lits) |-> cell_from_string(lits[i])]

\* multipliers of the cell
ExampleFactors == {Dec(2, 0), Dec(0, 0), Dec(-5, 1)}

\* let mut table = Table::try_from(json).unwrap()
ExampleDecode(lit) ==
    /\ ~fault
    /\ last.op = "init"
    /\ LET r == Table_try_from(ExampleJson(lit))
       IN  /\ table' = r.grid
           /\ fault' = (r.err \/ r.panic)
           /\ last' = [op |-> "example", step |-> 1, lit |-> lit]
    /\ UNCHANGED <<cell, slice, other_slice>>

\* table.push_row(Slice::from(vec![...]))
ExamplePushRow(lits) ==
    /\ ~fault
    /\ last.op = "example"
    /\ last.step = 1
    /\ LET r == Table_push_row(table, Slice_from(lits))
       IN  /\ table' = r.grid
           /\ fault' = r.panic
           /\ last' = [op |-> "example", step |-> 2, lit |-> last.lit,
                       pushed |-> lits]
    /\ UNCHANGED <<cell, slice, other_slice>>

\* let row1 = table.row(i).ok_or_else(..)?; let row2 = table.row(j)...?;
\* an absent row ends the example with an error
ExampleTakeRows(i, j) ==
    /\ ~fault
    /\ last.op = "example"
    /\ last.step = 2
    /\ LET row1 == Table_row(table, i)
           row2 == Table_row(table, j)
       IN  IF row1.panic \/ row2.panic
           THEN /\ fault' = TRUE
                /\ last' = [op |-> "example_fault"]
                /\ UNCHANGED <<slice, other_slice>>
           ELSE IF ~row1.out.some \/ ~row2.out.some
           THEN /\ last' = [op |-> "example_err"]
                /\ UNCHANGED <<slice, other_slice, fault>>
           ELSE /\ slice' = row1.out.val
                /\ other_slice' = row2.out.val
                /\ last' = [op |-> "example", step |-> 3, lit |-> last.lit,
                            pushed |-> last.pushed, i |-> i, j |-> j]
                /\ UNCHANGED fault
    /\ UNCHANGED <<cell, table>>

\* table.push_row(&row1 + &row2)
ExamplePushSum ==
    /\ ~fault
    /\ last.op = "example"
    /\ last.step = 3
    /\ LET r == Table_push_row(table, Slice_add(slice, other_slice))
       IN  /\ table' = r.grid
           /\ fault' = r.panic
           /\ last' = [last EXCEPT !.step = 4]
    /\ UNCHANGED <<cell, slice, other_slice>>

\* let cell = table.mut_cell(row, col).ok_or_else(..)?; cell.mul_value(value)
ExampleMulCell(row, col, value) ==
    /\ ~fault
    /\ last.op = "example"
    /\ last.step = 4
    /\ LET found == Table_mut_cell(table, row, col)
       IN  IF ~found.some
           THEN /\ last' = [op |-> "example_err"]
                /\ UNCHANGED table
           ELSE /\ table' = [table EXCEPT !.data[row * table.cols + col + 1] =
                                 Cell_mul_value(found.val, value)]
                /\ last' = [op |-> "example", step |-> 5, lit |-> last.lit,
                            pushed |-> last.pushed, i |-> last.i, j |-> last.j,
                            before |-> table, row |-> row, col |-> col,
                            value |-> value]
    /\ UNCHANGED <<cell, slice, other_slice, fault>>

\* table.write_csv(&mut csv)
ExampleWriteCsv ==
    /\ ~fault
    /\ last.op = "example"
    /\ last.step = 5
    /\ last' = [op |-> "example_csv", lit |-> last.lit, pushed |-> last.pushed,
                i |-> last.i, j |-> last.j, before |-> last.before,
                row |-> last.row, col |-> last.col, value |-> last.value,
                out |-> Table_write_csv(table)]
    /\ UNCHANGED <<cell, slice, other_slice, table, fault>>

NextExample ==
    \/ \E lit \in ExampleLits : ExampleDecode(lit)
    \/ \E lits \in ExampleRows : ExamplePushRow(lits)
    \/ \E i \in 0..1, j \in 2..3 : ExampleTakeRows(i, j)
    \/ ExamplePushSum
    \/ \E row \in 3..4, col \in 1..2, value \in ExampleFactors :
           ExampleMulCell(row, col, value)
    \/ ExampleWriteCsv

SpecExample == InitTable /\ [][NextExample]_vars

\* the rows of the example after the two pushes
ExampleTable ==
    <<Text(<<"a">>), Text(<<"b">>), Text(<<"c">>),
      Number(Dec(1, 0)), Number(Dec(2, 0)), Number(Dec(3, 0)),
      Number(Dec(4, 0)), Number(Dec(5, 0)), Number(Dec(6, 0))>>

\* the run is the one of the example
IsExampleRun ==
    /\ last.op = "example_csv"
    /\ last.lit = <<"1">>
    /\ last.pushed = << <<"4">>, <<"5">>, <<"6">> >>
    /\ last.i = 1
    /\ last.j = 2
    /\ last.row = 3
    /\ last.col = 2
    /\ last.value = Dec(2, 0)

\* C22: decoding [["a","b","c"],["1","2","3"]], push_row(["4","5","6"]),
\* push_row(row(1) + row(2)) and mut_cell(3,2).mul_value(2) end without a
\* fault in a 4 x 3 table whose first three rows are as decoded and pushed
\* and whose row 3 is [5,7,18] (it was [5,7,9] before the multiplication),
\* and write_csv writes "a,b,c\n1,2,3\n4,5,6\n5,7,18\n".
C22_EndToEnd ==
    IsExampleRun =>
        /\ ~fault
        /\ Table_rows(table) = 4
        /\ Table_cols(table) = 3
        /\ SameTable(last.before,
                     [rows |-> 4, cols |-> 3,
                      data |-> ExampleTable \o <<Number(Dec(5, 0)),
                                  Number(Dec(7, 0)), Number(Dec(9, 0))>>])
        /\ SameTable(table,
                     [rows |-> 4, cols |-> 3,
                      data |-> ExampleTable \o <<Number(Dec(5, 0)),
                                  Number(Dec(7, 0)), Number(Dec(18, 0))>>])
        /\ last.out = <<"a", ",", "b", ",", "c", LF,
                        "1", ",", "2", ",", "3", LF,
                        "4", ",", "5", ",", "6", LF,
                        "5", ",", "7", ",", "1", "8", LF>>

\* the run of the example has written its CSV
C22_Witness ==
    /\ IsExampleRun
    /\ Table_rows(table) = 4
    /\ Len(last.out) = 25

(***************************************************************************)
(* The classifier on literals: Cell::from(&str), then to_string.           *)
(***************************************************************************)
\* characters of the literals: digits, separators, signs, a letter, a quote
LitChars == {"0", "1", ",", ".", "+", "-", "a", QUOTE}

\* longer literals, after those of test_string_or_decimal
TestLits ==
    {<<"1", "2", ",", "3", "4", "5", ",", "6", "7", "8">>,
     <<"-", "1", "2", ",", "3", "4", "5", ".", "9", "0", "1">>,
     <<"+", "0", "1", "2", ",", "3", "4", "5">>,
     <<"-", "1", "2", "3", ",", "4", "5", "6", ",", "7", "8">>,
     <<"-", "1", "2", ",", "3", "4", ",", "5", "6", "7", ",", "8", ".", "9">>,
     <<"1", "2", "3", "4", ".", "5", "6", ".", "7", "8">>,
     <<"+", "+", "1", "2", "3", "4", "5", "6", "7", "8">>,
     <<QUOTE, "-", "1", "2", "3", ",", "4", "5", "6", QUOTE>>,
     <<"-", "1", "2", "a", ",", "4", "5", "6">>}

Literals == SeqUpTo(LitChars, MaxLitLen) \cup TestLits

InitClassify ==
    /\ cell = Text(<<>>)
    /\ slice = <<>>
    /\ other_slice = <<>>
    /\ table = Table_new
    /\ fault = FALSE
    /\ \E s \in Literals : last = [op |-> "literal", arg |-> s]

\* let cell = Cell::from(literal); cell.to_string()
CellFromStr ==
    /\ last.op = "literal"
    /\ cell' = cell_from_string(last.arg)
    /\ last' = [op |-> "from", arg |-> last.arg,
                out |-> Cell_to_string(cell_from_string(last.arg))]
    /\ UNCHANGED <<slice, other_slice, table, fault>>

NextClassify == CellFromStr

SpecClassify == InitClassify /\ [][NextClassify]_vars

\* s without its leading sign
Unsigned(s) == IF s # <<>> /\ s[1] \in {"+", "-"} THEN Tail(s) ELSE s

IsComma(c) == c = ","

NotComma(c) == c # ","

\* s is made of runs of digits separated by single commas, the first run of
\* 1 to 3 digits and every other run of exactly 3
Grouped(s) ==
    /\ s # <<>>
    /\ \A i \in 1..Len(s) : s[i] \in Digit \cup {","}
    /\ s[Len(s)] # ","
    /\ \A i \in 1..Len(s) :
           s[i] = "," =>
               /\ i \in 2..4
                  \/ (i >= 5 /\ s[i - 4] = ",")
               /\ i + 3 <= Len(s)
               /\ \A j \in (i + 1)..(i + 3) : s[j] \in Digit
               /\ i + 3 = Len(s) \/ s[i + 4] = ","

\* the literals of the claim: an optional sign, digits that are ungrouped or
\* grouped by commas, and at most one point followed by digits
NumericLiteral(s) ==
    LET body == Unsigned(s)
        p    == FirstPoint(body)
        ip   == IF p = 0 THEN body ELSE SubSeq(body, 1, p - 1)
        fp   == IF p = 0 THEN <<>> ELSE SubSeq(body, p + 1, Len(body))
    IN  /\ IsDigits(ip) \/ Grouped(ip)
        /\ p # 0 => IsDigits(fp)

\* the literal without its commas and without a leading "+"
Ungrouped(s) ==
    SelectSeq(IF s # <<>> /\ s[1] = "+" THEN Tail(s) ELSE s, NotComma)

RECURSIVE DropLeadingZeros(_)
DropLeadingZeros(s) ==
    IF Len(s) > 1 /\ s[1] = "0" THEN DropLeadingZeros(Tail(s)) ELSE s

\* the literal is a zero with a minus sign
NegativeZero(s) ==
    /\ s # <<>>
    /\ s[1] = "-"
    /\ \A i \in 2..Len(s) : s[i] \in {"0", ",", "."}

\* the ungrouped literal without the redundant zeros in front of its
\* integer digits
Canonical(s) ==
    LET u    == Ungrouped(s)
        body == Unsigned(u)
        p    == FirstPoint(body)
        ip   == IF p = 0 THEN body ELSE SubSeq(body, 1, p - 1)
        rest == IF p = 0 THEN <<>> ELSE SubSeq(body, p, Len(body))
    IN  (IF u[1] = "-" THEN <<"-">> ELSE <<>>) \o DropLeadingZeros(ip) \o rest

C23_WitnessLeadingZero ==
    /\ last.op = "from"
    /\ last.arg = <<"+", "0", "1", "2", ",", "3", "4", "5">>
    /\ last.out = <<"1", "2", "3", "4", "5">>

\* the literals RE_NUMERIC_PATTERN describes: those of C23 and, after an
\* optional sign, a point followed by digits
MatchesPattern(s) ==
    \/ NumericLiteral(s)
    \/ /\ Unsigned(s) # <<>>
       /\ Head(Unsigned(s)) = "."
       /\ IsDigits(Tail(Unsigned(s)))

\* the literal has a character that is no digit, sign, comma or point
HasOtherChar(s) == \E i \in 1..Len(s) : s[i] \notin Digit \cup {"+", "-", ",", "."}

\* the literal has a sign after its first character
SignInside(s) == \E i \in 2..Len(s) : s[i] \in {"+", "-"}

\* the literal has two points
TwoPoints(s) == \E i, j \in 1..Len(s) : i < j /\ s[i] = "." /\ s[j] = "."

C24_WitnessQuoted ==
    /\ last.op = "from"
    /\ last.arg = <<QUOTE, "-", "1", "2", "3", ",", "4", "5", "6", QUOTE>>
    /\ cell.tag = "Text"
    /\ last.out = last.arg

(***************************************************************************)
(* In-place and binary arithmetic of a cell.                               *)
(***************************************************************************)
\* the binary operator of a mutator, applied to cells
BinaryOf(op, c, other) ==
    CASE op = "add_value" -> Cell_add(c, other)
      [] op = "sub_value" -> Cell_sub(c, other)
      [] op = "mul_value" -> Cell_mul(c, other)
      [] op = "div_value" -> Cell_div(c, other)

\* C25: the cell after c.add_value(d), c.sub_value(d), c.mul_value(d) or
\* c.div_value(d), for a Text or Number cell c and a decimal d, zero
\* included, equals the cell that the binary operator gives for c and
\* Cell::Number(d); the binary operators leave the cell they are applied
\* to as it was.
C25_InPlaceIsBinary ==
    /\ last.op \in MutOps =>
           CellEq(cell, BinaryOf(last.op, last.self, Number(last.value)))
    /\ last.op \in BinOps => cell = last.self

\* a Number has been divided by zero in place
C25_Witness ==
    /\ last.op = "div_value"
    /\ last.self.tag = "Number"
    /\ last.value.m = 0
    /\ cell = Sentinel
    /\ Cell_div(last.self, Number(last.value)) = Sentinel

\* a fraction has been subtracted from a Number in place
C25_WitnessSub ==
    /\ last.op = "sub_value"
    /\ last.self = Number(Dec(1, 0))
    /\ last.value = Dec(5, 1)
    /\ cell = Number(Dec(5, 1))

\* a binary operator has been applied to a Text cell and a Number
C25_WitnessBinary ==
    /\ last.op = "div"
    /\ last.self.tag = "Text"
    /\ last.other = Number(Dec(0, 0))
    /\ cell = last.self

(***************************************************************************)
(* Replace out of range; insert and remove at the same index.              *)
(***************************************************************************)
\* C26: replace_row(idx, r) with idx >= rows() and replace_col(idx, c) with
\* idx >= cols() return None without a fault and leave rows(), cols() and
\* every cell of the table as they were.
C26_ReplaceOutOfRange ==
    /\ (last.op = "replace_row" /\ last.idx >= Table_rows(last.pre))
       => /\ ~fault
          /\ last.out = NoneSlice
          /\ table = last.pre
    /\ (last.op = "replace_col" /\ last.idx >= Table_cols(last.pre))
       => /\ ~fault
          /\ last.out = NoneSlice
          /\ table = last.pre

C27_WitnessOnlyRow ==
    /\ last.op = "remove_row"
    /\ Table_rows(last.pre) = 1
    /\ Table_cols(last.pre) = 2
    /\ Table_rows(table) = 0
    /\ Table_insert_row(table, 0, last.out.val).grid = last.pre

\* a row has been inserted in front of the first row
C27_WitnessRow ==
    /\ last.op = "insert_row"
    /\ last.idx = 0
    /\ Table_rows(last.pre) = 1
    /\ last.arg # RowOf(last.pre, 0)
    /\ Table_remove_row(table, 0).out = SomeSlice(last.arg)

====
